---------------------------- MODULE Spec2Model ----------------------------
(***************************************************************************)
(* YOLO annotation corrector: the batch pass of annotation_corrector.main  *)
(* (seeding of the corrected directory, prediction cache, review queue)    *)
(* and the review window (window.AnnotationWindow with the box items of    *)
(* graphics_items; qt_interface holds a second copy of the window and of   *)
(* the items, which main imports).                                         *)
(*                                                                         *)
(* Text.  A string is a sequence of characters; a character is a blank SP  *)
(* or a whole word: an integer literal I(n) ("3"), a decimal literal D(n)  *)
(* (n / Den printed with Digits decimals, "0.500000" in the code) or a     *)
(* non-numeric word Bad.  No string of the model holds two words without a *)
(* blank between them, so str.split() is the subsequence of the words.     *)
(*                                                                         *)
(* Numbers.  float values are exact rationals.  A fraction of the image    *)
(* size is an integer count of 1/Den; a pixel coordinate of a QRectF is an *)
(* integer count of 1/(2*Den) pixel (PX units make one pixel), which makes *)
(* yolo_line_to_rect exact.  The code prints 6 decimals; the model prints  *)
(* Digits decimals so that areas stay within TLC's 32-bit integers.        *)
(***************************************************************************)
EXTENDS Integers, Sequences, FiniteSets, TLC

\* ------------------------------------------------------------------ bounds
\* decimals kept by the ".6f" formats (the code keeps 6)
Digits == 1
\* width and height, in pixels, of every image of the model
ImgSize == 100
\* wheel notches the zoom may be away from its start, either way
MaxZoom == 1
\* the maximum of both scroll bars of the view, their minimum being 0
ScrollMax == 2
\* resizes (presses on a handle) one review session may take
MaxEdits == 1
\* save_all calls one review session may take; the model follows a session
\* up to the end of its last save_all
MaxSaves == 1
\* runs of main one after the other, on one set of directories
MaxRuns == 2
\* flags off their defaults at once, and resizes, in a session of Spec,
\* which runs every handler
Shallow == 1

\* ------------------------------------------------------------- constants
HANDLE_SIZE == 10

RECURSIVE Pow10(_)
Pow10(n) == IF n = 0 THEN 1 ELSE 10 * Pow10(n - 1)
Den == Pow10(Digits)
\* one pixel, in QRectF coordinate units
PX == 2 * Den

\* --------------------------------------------------------------- text
SP == [k |-> "sp", v |-> 0]
I(n) == [k |-> "int", v |-> n]
D(n) == [k |-> "dec", v |-> n]
W(n) == [k |-> "bad", v |-> n]
Bad == W(0)

IsSpace(c) == c.k = "sp"

\* str.strip(): leading and trailing blanks removed
RECURSIVE LStrip(_)
LStrip(s) == IF s # <<>> /\ IsSpace(Head(s)) THEN LStrip(Tail(s)) ELSE s
RECURSIVE RStrip(_)
RStrip(s) ==
    IF s # <<>> /\ IsSpace(s[Len(s)]) THEN RStrip(SubSeq(s, 1, Len(s) - 1)) ELSE s
Strip(s) == RStrip(LStrip(s))

\* str.split(): the words, in order
Split(s) == SelectSeq(s, LAMBDA c : ~IsSpace(c))

\* " ".join(parts)
RECURSIVE Join(_)
Join(parts) ==
    IF Len(parts) <= 1 THEN parts
    ELSE <<Head(parts), SP>> \o Join(Tail(parts))

\* parts[:n]
Take(parts, n) == SubSeq(parts, 1, IF Len(parts) < n THEN Len(parts) ELSE n)

\* float(word) succeeds / its value in 1/Den; int(word) succeeds / its value
FloatOk(c) == c.k \in {"int", "dec"}
Float(c) == IF c.k = "int" THEN c.v * Den ELSE c.v
IntOk(c) == c.k = "int"
Int_(c) == c.v

\* f"{cls} {xc:.6f} {yc:.6f} {w:.6f} {h:.6f}"
FormatLine(cls, xc, yc, w, h) == <<I(cls), SP, D(xc), SP, D(yc), SP, D(w), SP, D(h)>>


\* ----------------------------------------------------------- geometry
\* QRectF: x, y, w, h; QRectF() is the null rectangle
Rect(x, y, w, h) == [x |-> x, y |-> y, w |-> w, h |-> h]
NullRect == Rect(0, 0, 0, 0)
IsNull(r) == r.w = 0 /\ r.h = 0
Min(a, b) == IF a < b THEN a ELSE b
Max(a, b) == IF a > b THEN a ELSE b

\* QRectF.setTopLeft / setBottomRight: the opposite corner stays
SetTopLeft(r, p) == Rect(p.x, p.y, r.x + r.w - p.x, r.y + r.h - p.y)
SetBottomRight(r, p) == Rect(r.x, r.y, p.x - r.x, p.y - r.y)

\* QRectF.intersected: both rectangles normalised (l1..r1 by t1..b1 and
\* l2..r2 by t2..b2); null when either is empty on an axis or they do not
\* overlap
Overlap(l1, r1, l2, r2, t1, b1, t2, b2) ==
    IF l1 = r1 \/ l2 = r2 \/ l1 >= r2 \/ l2 >= r1 THEN NullRect
    ELSE IF t1 = b1 \/ t2 = b2 \/ t1 >= b2 \/ t2 >= b1 THEN NullRect
    ELSE Rect(Max(l1, l2), Max(t1, t2),
              Min(r1, r2) - Max(l1, l2), Min(b1, b2) - Max(t1, t2))

Intersected(a, b) ==
    Overlap(Min(a.x, a.x + a.w), Max(a.x, a.x + a.w),
            Min(b.x, b.x + b.w), Max(b.x, b.x + b.w),
            Min(a.y, a.y + a.h), Max(a.y, a.y + a.h),
            Min(b.y, b.y + b.h), Max(b.y, b.y + b.h))

\* a float that is a quotient: n / d with d > 0
Frac(n, d) == [n |-> n, d |-> d]
Zero == Frac(0, 1)
Quot(n, d) == IF d < 0 THEN Frac(0 - n, 0 - d) ELSE Frac(n, d)

\* a/b > c/d for a > 0, b > 0, c >= 0, d > 0, without the cross products
RECURSIVE PosGt(_, _, _, _)
PosGt(a, b, c, d) ==
    IF c = 0 THEN TRUE
    ELSE IF a \div b # c \div d THEN a \div b > c \div d
    ELSE IF a % b = 0 THEN FALSE
    ELSE IF c % d = 0 THEN TRUE
    ELSE PosGt(d, c % d, b, a % b)

\* f > g for g >= 0
FracGt(f, g) == f.n > 0 /\ PosGt(f.n, f.d, g.n, g.d)
FracIsZero(f) == f.n = 0

\* window.iou, once inter = rect1.intersected(rect2) is known
iou_of(rect1, rect2, inter) ==
    IF IsNull(inter) THEN Zero
    ELSE IF rect1.w * rect1.h + rect2.w * rect2.h - inter.w * inter.h = 0 THEN Zero
    ELSE Quot(inter.w * inter.h,
              rect1.w * rect1.h + rect2.w * rect2.h - inter.w * inter.h)

\* window.iou
iou(rect1, rect2) == iou_of(rect1, rect2, Intersected(rect1, rect2))

\* window.yolo_line_to_rect; float() raises ValueError on a non-numeric word
LineFloatsOk(line) ==
    LET parts == Split(line)
    IN  Len(parts) = 5 => \A i \in 2..5 : FloatOk(parts[i])

\* the centre taken for the top left corner
CornerRect(xc, yc, w, h, img_w, img_h) ==
    Rect(2 * xc * img_w, 2 * yc * img_h, 2 * w * img_w, 2 * h * img_h)

CentreRect(xc, yc, w, h, img_w, img_h) ==
    Rect((2 * xc - w) * img_w, (2 * yc - h) * img_h, 2 * w * img_w, 2 * h * img_h)

PartsRect(parts, img_w, img_h) ==
    IF Len(parts) # 5 THEN NullRect
    ELSE CentreRect(Float(parts[2]), Float(parts[3]), Float(parts[4]),
                    Float(parts[5]), img_w, img_h)

yolo_line_to_rect(line, img_w, img_h) == PartsRect(Split(line), img_w, img_h)

\* n / d (d > 0) rounded to the nearest integer, a tie to the even one:
\* what ".6f" prints of an exactly represented value
RoundDiv(n, d) ==
    LET q == n \div d
        r == n % d
    IN  IF 2 * r < d THEN q
        ELSE IF 2 * r > d THEN q + 1
        ELSE IF q % 2 = 0 THEN q ELSE q + 1

\* graphics_items.rect_to_yolo_line
rect_to_yolo_line(rect, cls_id, img_w, img_h) ==
    FormatLine(cls_id,
               RoundDiv(2 * rect.x + rect.w, 4 * img_w),
               RoundDiv(2 * rect.y + rect.h, 4 * img_h),
               RoundDiv(rect.w, 2 * img_w),
               RoundDiv(rect.h, 2 * img_h))

\* ------------------------------------------------------- file system
\* a path is <<directory, stem>>: labels/<stem>.txt, corrected/<stem>.txt and
\* corrected/predicted_labels/<stem>.txt; a file is its lines (no newline)
Stems == {"a", "b", "c"}
Dirs == {"labels", "corrected", "pred"}
Paths == Dirs \X Stems
Path(dir, stem) == <<dir, stem>>
File(lines) == [ex |-> TRUE, lines |-> lines]
NoFile == [ex |-> FALSE, lines |-> <<>>]

Range(seq) == {seq[i] : i \in DOMAIN seq}
Map(seq, Op(_)) ==
    IF seq = <<>> THEN <<>> ELSE [i \in 1..Len(seq) |-> Op(seq[i])]

\* [line.strip() for line in f if line.strip()]
StripNonBlank(lines) ==
    Map(SelectSeq(lines, LAMBDA l : Strip(l) # <<>>), Strip)

\* annotation_corrector.load_labels
load_labels(fs, label_file) ==
    IF ~fs[label_file].ex THEN <<>> ELSE StripNonBlank(fs[label_file].lines)

\* a confidence is a count of 1/(10 * Den): one decimal more than is printed
ConfScale == Pow10(1)
Pred(line, conf) == [line |-> line, conf |-> conf]

\* main, replay mode: one prediction per non-blank line of the side file
ReplayOk(fs, pred_file) ==
    \A l \in Range(load_labels(fs, pred_file)) :
        Len(Split(l)) >= 6 => FloatOk(Split(l)[6])

ReplayPred(l) ==
    LET parts == Split(l)
    IN  Pred(Join(Take(parts, 5)),
             IF Len(parts) >= 6 THEN Float(parts[6]) * ConfScale ELSE 0)

ReplayLines(fs, pred_file) ==
    IF ~fs[pred_file].ex THEN <<>>
    ELSE Map(StripNonBlank(fs[pred_file].lines), ReplayPred)

\* main, live mode: f"{line} {conf:.6f}\n" for every prediction
SideLine(p) == p.line \o <<SP, D(RoundDiv(p.conf, ConfScale))>>
SideFile(pred_lines) == File(Map(pred_lines, SideLine))

\* the comparison made on the lists, not on the sets
SameLists(pred_lines, label_lines) ==
    Map(pred_lines, LAMBDA p : p.line) = label_lines

\* main: set(line for line, _ in pred_lines) == set(label_lines)
SameSets(pred_lines, label_lines) ==
    {p.line : p \in Range(pred_lines)} = Range(label_lines)

\* the four parallel lists main builds, as one list of entries
\* a prediction accepted from the start
PredStateAccepted(p) == [line |-> p.line, conf |-> p.conf, accepted |-> TRUE]

PredState(p) == [line |-> p.line, conf |-> p.conf, accepted |-> FALSE]
GtState(l) == [line |-> l, kept |-> TRUE]
\* the entry whose target file is that of stem "a" whatever the image
EntryFileOfA(img, pred_lines, label_lines, label_file) ==
    [image |-> img,
     preds |-> Map(pred_lines, PredState),
     labels |-> Map(label_lines, GtState),
     label_file |-> Path("corrected", "a")]

Entry(img, pred_lines, label_lines, label_file) ==
    [image |-> img,
     preds |-> Map(pred_lines, PredState),
     labels |-> Map(label_lines, GtState),
     label_file |-> label_file]

\* main, the end of the loop body: the image is skipped or queued.  st is
\* [fs, q, crashed]; fs is the file system with the side file written
Queue(st, fs, img, pred_lines, label_lines, label_file) ==
    IF SameSets(pred_lines, label_lines) THEN [st EXCEPT !.fs = fs]
    ELSE [st EXCEPT !.fs = fs,
                    !.q = Append(@, Entry(img, pred_lines, label_lines, label_file))]

\* main: the body of the loop over image_paths for one image; predicted is
\* what inference.predict returns for img
ProcessImage(st, img, replay, predicted) ==
    IF ~img.ok THEN st
    ELSE IF replay
        THEN IF ~ReplayOk(st.fs, Path("pred", img.stem))
             THEN [st EXCEPT !.crashed = TRUE]
             ELSE Queue(st, st.fs, img, ReplayLines(st.fs, Path("pred", img.stem)),
                        load_labels(st.fs, Path("corrected", img.stem)),
                        Path("corrected", img.stem))
    ELSE Queue(st, [st.fs EXCEPT ![Path("pred", img.stem)] = SideFile(predicted)],
               img, predicted, load_labels(st.fs, Path("corrected", img.stem)),
               Path("corrected", img.stem))

\* the copy made whether or not the corrected file exists
SeedAlways(fs, stem) ==
    IF fs[Path("labels", stem)].ex
    THEN [fs EXCEPT ![Path("corrected", stem)] = fs[Path("labels", stem)]]
    ELSE fs

\* main: the seeding loop for one source file (shutil.copy succeeding)
SeedOne(fs, stem) ==
    IF fs[Path("labels", stem)].ex /\ ~fs[Path("corrected", stem)].ex
    THEN [fs EXCEPT ![Path("corrected", stem)] = fs[Path("labels", stem)]]
    ELSE fs

RECURSIVE SeedAll(_, _)
SeedAll(fs, stems) ==
    IF stems = {} THEN fs
    ELSE LET s == CHOOSE x \in stems : TRUE
         IN  SeedAll(SeedOne(fs, s), stems \ {s})

\* main from the seeding to the call of run_interface, image by image
RECURSIVE RunLoop(_, _, _, _)
RunLoop(st, image_paths, replay, predict) ==
    IF image_paths = <<>> \/ st.crashed THEN st
    ELSE RunLoop(ProcessImage(st, Head(image_paths), replay,
                              predict[Head(image_paths)]),
                 Tail(image_paths), replay, predict)

Main(fs, image_paths, replay, predict) ==
    RunLoop([fs |-> SeedAll(fs, Stems), q |-> <<>>, crashed |-> FALSE],
            image_paths, replay, predict)

\* ------------------------------------------------------ review window
VARIABLES
    files,          \* the file system: path -> file
    pc,             \* "idle", "saving", "preview", "closed", "dead"
    index,          \* AnnotationWindow.index, counted from 1
    pred_states,    \* AnnotationWindow.pred_states: per image, the dicts
    gt_states,      \* AnnotationWindow.gt_states
    label_files,    \* AnnotationWindow.label_files
    class_names,    \* AnnotationWindow.class_names
    images,         \* AnnotationWindow.images
    pred_items,     \* the PredBox items of the displayed image
    gt_items,       \* the GTBox items of the displayed image
    final_items,    \* the final overlay of the displayed image
    pred_checkbox, gt_checkbox, final_checkbox,
    save_idx,       \* save_all: the image whose file is written next
    save_open,      \* save_all: that file is open (truncated, not yet closed)
    save_buf,       \* save_all: the lines written to the open file so far
    message,        \* the text of the open "Final Labels" box
    prior,          \* history: the file system when the last save_all began
    lastOp,         \* history: the last handler that ran
    nEdits, nSaves,
    run,            \* the batch pass (BatchSpec only)
    view,           \* the ZoomableGraphicsView: zoom, scroll bars, pan point
    flagged,        \* history: the last handler has run flag_predictions
    qt              \* the window of qt_interface on the same queue (PairSpec only)

winVars == <<pc, index, pred_states, gt_states, label_files, class_names, images,
             pred_items, gt_items, final_items, pred_checkbox, gt_checkbox,
             final_checkbox, save_idx, save_open, save_buf, message, prior,
             lastOp, nEdits, nSaves, view, flagged>>
vars == <<files, winVars, run, qt>>

\* pixmap.width(), pixmap.height() of the displayed image
img_w == ImgSize
img_h == ImgSize

\* the class word of a line: line.split()[0]
ClassWord(line) == Split(line)[1]

\* PredBox.__init__ / GTBox.__init__ and the yolo_line_to_rect before them
\* raise ValueError on a line they cannot read
ItemOk(line) == LineFloatsOk(line) /\ IntOk(ClassWord(line))

\* the item built without the stored flag
PredItemFresh(state, visible) ==
    [rect |-> yolo_line_to_rect(state.line, img_w, img_h),
     line |-> state.line, conf |-> state.conf, accepted |-> FALSE,
     pen |-> "red", visible |-> visible, resizing |-> "none"]

PredItem(state, visible) ==
    [rect |-> yolo_line_to_rect(state.line, img_w, img_h),
     line |-> state.line, conf |-> state.conf, accepted |-> state.accepted,
     pen |-> "red", visible |-> visible, resizing |-> "none"]

GtItem(state, visible) ==
    [rect |-> yolo_line_to_rect(state.line, img_w, img_h),
     line |-> state.line, kept |-> state.kept,
     visible |-> visible, resizing |-> "none"]

\* flag_predictions, the inner loop: the best kept ground truth for rect p
\* among gts[k..]; best is [iou, gt] with gt = 0 for None
\* the later of two equal IoUs taken
BetterLast(best, i, k) ==
    IF ~FracGt(best.iou, i) THEN [iou |-> i, gt |-> k] ELSE best

Better(best, i, k) == IF FracGt(i, best.iou) THEN [iou |-> i, gt |-> k] ELSE best

\* the unkept labels matched like the kept ones
RECURSIVE BestOfAll(_, _, _, _)
BestOfAll(p, gts, k, best) ==
    IF k > Len(gts) THEN best
    ELSE BestOfAll(p, gts, k + 1, Better(best, iou(p.rect, gts[k].rect), k))

RECURSIVE BestFrom(_, _, _, _)
BestFrom(p, gts, k, best) ==
    IF k > Len(gts) THEN best
    ELSE IF ~gts[k].kept THEN BestFrom(p, gts, k + 1, best)
    ELSE BestFrom(p, gts, k + 1, Better(best, iou(p.rect, gts[k].rect), k))

BestMatch(p, gts) == BestFrom(p, gts, 1, [iou |-> Zero, gt |-> 0])

\* flag_predictions, the test of one prediction: amber or red
\* the classes not compared
NoOverlap(p, gts, best) == FracIsZero(best.iou)

Mismatch(p, gts, best) ==
    \/ FracIsZero(best.iou)
    \/ best.gt # 0 /\ ClassWord(p.line) # ClassWord(gts[best.gt].line)

Disagrees(p, gts) == Mismatch(p, gts, BestMatch(p, gts))

\* AnnotationWindow.flag_predictions
flag_predictions(preds, gts) ==
    Map(preds, LAMBDA p : [p EXCEPT !.pen = IF Disagrees(p, gts) THEN "amber"
                                              ELSE "red"])

\* the class text of the final overlay
ClassName(names, line) ==
    LET cls_id == Int_(ClassWord(line))
    IN  IF 0 <= cls_id /\ cls_id < Len(names) THEN names[cls_id + 1]
        ELSE ToString(cls_id)

FinalOf(names, item) ==
    <<[kind |-> "rect", rect |-> item.rect, text |-> ""],
      [kind |-> "text", rect |-> item.rect, text |-> ClassName(names, item.line)]>>

RECURSIVE Flatten(_)
Flatten(ss) == IF ss = <<>> THEN <<>> ELSE Head(ss) \o Flatten(Tail(ss))

\* AnnotationWindow.update_final_items
update_final_items(names, checked, preds, gts) ==
    IF ~checked THEN <<>>
    ELSE Flatten(Map(SelectSeq(gts, LAMBDA g : g.kept),
                     LAMBDA g : FinalOf(names, g)))
         \o Flatten(Map(SelectSeq(preds, LAMBDA q : q.accepted),
                        LAMBDA q : FinalOf(names, q)))

\* the accepted predictions put before the kept labels
collect_preds_first(gts, preds) ==
    Map(SelectSeq(preds, LAMBDA s : s.accepted), LAMBDA s : s.line)
    \o Map(SelectSeq(gts, LAMBDA s : s.kept), LAMBDA s : s.line)

\* AnnotationWindow.collect_lines
collect_lines(gts, preds) ==
    Map(SelectSeq(gts, LAMBDA s : s.kept), LAMBDA s : s.line)
    \o Map(SelectSeq(preds, LAMBDA s : s.accepted), LAMBDA s : s.line)

\* AnnotationWindow.load_image: what it builds from the states of image idx
LoadOk(ps, gs) ==
    /\ \A s \in Range(ps) : ItemOk(s.line)
    /\ \A s \in Range(gs) : ItemOk(s.line)

Items(preds, gts, names, show_final) ==
    [preds |-> preds, gts |-> gts,
     final |-> update_final_items(names, show_final, preds, gts)]

Flagged(preds, gts, names, show_final) ==
    Items(flag_predictions(preds, gts), gts, names, show_final)

Loaded(ps, gs, names, show_pred, show_gt, show_final) ==
    Flagged(Map(ps, LAMBDA s : PredItem(s, show_pred)),
            Map(gs, LAMBDA s : GtItem(s, show_gt)), names, show_final)

\* load_image shows the items l it has built
Show(idx, l) ==
    /\ index' = idx
    /\ gt_items' = l.gts
    /\ pred_items' = l.preds
    /\ final_items' = l.final
    /\ pc' = pc

load_image(idx) ==
    IF ~LoadOk(pred_states[idx], gt_states[idx])
    THEN /\ pc' = "dead"
         /\ UNCHANGED <<index, pred_items, gt_items, final_items>>
    ELSE Show(idx, Loaded(pred_states[idx], gt_states[idx], class_names,
                          pred_checkbox, gt_checkbox, final_checkbox))

\* ------------------------------------------------------------ inputs
Tenth(n) == n * (Den \div 10)
Box(cls, xc, yc, w, h) == FormatLine(cls, Tenth(xc), Tenth(yc), Tenth(w), Tenth(h))
A0 == Box(0, 5, 5, 4, 4)
A1 == Box(1, 5, 5, 4, 4)
B0 == Box(0, 3, 3, 2, 2)
C0 == Box(0, 8, 8, 2, 2)
\* a line of four words, and a line whose class is no integer
Short0 == Take(A0, 7)
BadCls == <<Bad>> \o Tail(A0)

Img(stem, ext) == [stem |-> stem, ext |-> ext, ok |-> TRUE]
\* an image file Image.open cannot decode
Undecodable(stem, ext) == [stem |-> stem, ext |-> ext, ok |-> FALSE]
Conf(n) == Tenth(n) * ConfScale

\* no file at any path
RECURSIVE NoFiles(_)
NoFiles(paths) ==
    IF paths = {} THEN <<>>
    ELSE LET p == CHOOSE x \in paths : TRUE
         IN  (p :> NoFile) @@ NoFiles(paths \ {p})
EmptyFs == NoFiles(Paths)
LabelsFs(la, lb) ==
    [EmptyFs EXCEPT ![Path("labels", "a")] = File(la),
                    ![Path("labels", "b")] = File(lb)]

\* what the user starts main on: the directories, the sorted image paths,
\* --predictions, what the model predicts and the model's class names
ReviewScenarios ==
    { [fs |-> LabelsFs(<<A1, A0>>, <<B0>>),
       image_paths |-> <<Img("a", "jpg"), Img("b", "jpg")>>,
       replay |-> FALSE,
       predict |-> (Img("a", "jpg") :> <<Pred(A0, Conf(9))>>
                    @@ Img("b", "jpg") :> <<Pred(B0, Conf(8)), Pred(C0, Conf(7))>>),
       names |-> <<"cat">>],
      \* two images of one stem
      [fs |-> LabelsFs(<<A0>>, <<>>),
       image_paths |-> <<Img("a", "jpg"), Img("a", "png")>>,
       replay |-> FALSE,
       predict |-> (Img("a", "jpg") :> <<Pred(A1, Conf(9))>>
                    @@ Img("a", "png") :> <<Pred(B0, Conf(8))>>),
       names |-> <<"cat">>],
      \* a short line, and an image whose label cannot be read as a box
      [fs |-> LabelsFs(<<Short0>>, <<BadCls>>),
       image_paths |-> <<Img("a", "jpg"), Img("b", "jpg")>>,
       replay |-> FALSE,
       predict |-> (Img("a", "jpg") :> <<Pred(A0, Conf(9))>>
                    @@ Img("b", "jpg") :> <<Pred(A0, Conf(9))>>),
       names |-> <<"cat">>] }

\* two images of one box and of two boxes
SmallScenarios ==
    { [fs |-> LabelsFs(<<A1>>, <<>>),
       image_paths |-> <<Img("a", "jpg"), Img("b", "jpg")>>,
       replay |-> FALSE,
       predict |-> (Img("a", "jpg") :> <<Pred(A0, Conf(9))>>
                    @@ Img("b", "jpg") :> <<Pred(B0, Conf(8))>>),
       names |-> <<"cat">>] }

\* the class names of the model of every scenario
ModelNames == <<"cat">>

\* runs with --predictions on side files an earlier run has left; the
\* corrected directory is seeded
ReplayScenarios ==
    { [fs |-> [LabelsFs(<<A1>>, <<B0>>) EXCEPT
                  ![Path("corrected", "a")] = File(<<A1>>),
                  ![Path("corrected", "b")] = File(<<B0>>),
                  ![Path("pred", "a")] = File(<<A0 \o <<SP, D(Tenth(9))>> >>),
                  ![Path("pred", "b")] = File(<<B0 \o <<SP, D(Tenth(8))>>,
                                                C0 \o <<SP, D(Tenth(7))>> >>)],
       image_paths |-> <<Img("a", "jpg"), Img("b", "jpg")>>,
       replay |-> TRUE,
       predict |-> (Img("a", "jpg") :> <<>> @@ Img("b", "jpg") :> <<>>),
       names |-> ModelNames] }

\* main: class_names is read from the model only without --predictions
ClassNamesOf(sc) == IF sc.replay THEN <<>> ELSE sc.names

\* ZoomableGraphicsView.__init__: the zoom is (5/4)^zoom, h and v are the
\* values of the scroll bars, pan is _last_pan_point (<<>> for None)
ViewInit == [zoom |-> 0, h |-> 0, v |-> 0, pan |-> <<>>]

\* the items of the first image, as __init__'s load_image leaves them
Shown(l) ==
    /\ pred_items = l.preds
    /\ gt_items = l.gts
    /\ final_items = l.final

\* AnnotationWindow.__init__ on the lists main hands to run_interface
WindowInit(q, names) ==
    /\ images = Map(q, LAMBDA e : e.image)
    /\ pred_states = Map(q, LAMBDA e : e.preds)
    /\ gt_states = Map(q, LAMBDA e : e.labels)
    /\ label_files = Map(q, LAMBDA e : e.label_file)
    /\ class_names = names
    /\ pred_checkbox = TRUE
    /\ gt_checkbox = TRUE
    /\ final_checkbox = FALSE
    /\ index = 1
    /\ flagged = LoadOk(q[1].preds, q[1].labels)
    /\ IF LoadOk(q[1].preds, q[1].labels)
       THEN /\ pc = "idle"
            /\ Shown(Loaded(q[1].preds, q[1].labels, names, TRUE, TRUE, FALSE))
       ELSE /\ pc = "dead"
            /\ pred_items = <<>>
            /\ gt_items = <<>>
            /\ final_items = <<>>
    /\ save_idx = 0
    /\ save_open = FALSE
    /\ save_buf = <<>>
    /\ message = <<>>
    /\ lastOp = [op |-> "other", from |-> 0]
    /\ nEdits = 0
    /\ nSaves = 0
    /\ view = ViewInit

NoRun == [phase |-> "none"]

\* run_interface on what main has built (m), when main reaches it
Review(m, names) ==
    /\ ~m.crashed
    /\ m.q # <<>>
    /\ files = m.fs
    /\ prior = m.fs
    /\ run = NoRun
    /\ WindowInit(m.q, names)

\* no window of qt_interface is open
NoQt == [pc |-> "none"]

InitOn(scenarios) ==
    /\ qt = NoQt
    /\ \E sc \in scenarios :
           Review(Main(sc.fs, sc.image_paths, sc.replay, sc.predict), ClassNamesOf(sc))

\* ------------------------------------------------------------ handlers
\* event.pos() of the mouse events of the model, in pixels
Pt(x, y) == [x |-> x * PX, y |-> y * PX]
Positions == {Pt(30, 30), Pt(50, 50), Pt(70, 70), Pt(70, 30)}

Abs(n) == IF n < 0 THEN 0 - n ELSE n

\* a handle that ends before HANDLE_SIZE pixels
start_resize_strict(r, pos) ==
    IF Abs(pos.x - r.x) < HANDLE_SIZE * PX /\ Abs(pos.y - r.y) < HANDLE_SIZE * PX
        THEN "topleft"
    ELSE IF /\ Abs(pos.x - (r.x + r.w)) < HANDLE_SIZE * PX
            /\ Abs(pos.y - (r.y + r.h)) < HANDLE_SIZE * PX
        THEN "bottomright"
    ELSE "none"

\* PredBox._start_resize / GTBox._start_resize: the new _resizing
start_resize(r, pos) ==
    IF Abs(pos.x - r.x) <= HANDLE_SIZE * PX /\ Abs(pos.y - r.y) <= HANDLE_SIZE * PX
        THEN "topleft"
    ELSE IF /\ Abs(pos.x - (r.x + r.w)) <= HANDLE_SIZE * PX
            /\ Abs(pos.y - (r.y + r.h)) <= HANDLE_SIZE * PX
        THEN "bottomright"
    ELSE "none"

\* the line written with class 0 whatever the class of the item
update_from_rect_cls0(item, r) ==
    [item EXCEPT !.rect = r, !.line = rect_to_yolo_line(r, 0, img_w, img_h)]

\* _resize and _update_from_rect on one item: its new rect and line
update_from_rect(item, r) ==
    [item EXCEPT !.rect = r,
                 !.line = rect_to_yolo_line(r, Int_(ClassWord(item.line)),
                                            img_w, img_h)]

resize(item, pos) ==
    update_from_rect(item, IF item.resizing = "topleft"
                           THEN SetTopLeft(item.rect, pos)
                           ELSE SetBottomRight(item.rect, pos))

\* the final overlay left as it is
KeepFinal(preds, gts) == final_items

\* "if self.window.final_checkbox.isChecked(): self.window.update_final_items()"
RefreshFinal(preds, gts) ==
    IF final_checkbox THEN update_final_items(class_names, TRUE, preds, gts)
    ELSE final_items

\* the window takes events: it is open, no handler is running, and the
\* session has saves left
Idle == pc = "idle" /\ nSaves < MaxSaves

\* history: the handler that ran, and the index it started from
Did(op) ==
    /\ lastOp' = [op |-> op, from |-> index]
    /\ message' = <<>>
    /\ flagged' = FALSE

\* history: a navigation, which runs flag_predictions when it loads an image
Went(op) ==
    /\ lastOp' = [op |-> op, from |-> index]
    /\ message' = <<>>
    /\ flagged' = (index' # index)

\* history: a handler of a box or of a checkbox, which has run
\* flag_predictions (f) or has not
Ran(f) ==
    /\ lastOp' = [op |-> "other", from |-> 0]
    /\ message' = <<>>
    /\ flagged' = f
Other == Ran(FALSE)

\* the click that only sets the flag
SetFlag(flag) == TRUE

\* "self.accepted = not self.accepted", "self.kept = not self.kept"
Flip(flag) == ~flag

\* PredBox.mousePressEvent on prediction j of the displayed image
PredPress(j, pos) ==
    /\ Idle
    /\ pred_items[j].visible
    /\ LET h == start_resize(pred_items[j].rect, pos)
       IN  IF h # "none"
           THEN /\ nEdits < MaxEdits
                /\ nEdits' = nEdits + 1
                /\ pred_items' = [pred_items EXCEPT ![j].resizing = h]
                /\ UNCHANGED <<pred_states, final_items>>
           ELSE LET preds == [pred_items EXCEPT
                                 ![j].resizing = "none",
                                 ![j].accepted = Flip(pred_items[j].accepted)]
                IN  /\ pred_items' = preds
                    /\ pred_states' = [pred_states EXCEPT
                                          ![index][j].accepted = preds[j].accepted]
                    /\ final_items' = RefreshFinal(preds, gt_items)
                    /\ UNCHANGED nEdits
    /\ Other
    /\ UNCHANGED <<files, pc, index, gt_states, label_files, class_names, images,
                   gt_items, pred_checkbox, gt_checkbox, final_checkbox,
                   save_idx, save_open, save_buf, prior, nSaves, run, view>>

\* GTBox.mousePressEvent on label j of the displayed image
GtPress(j, pos) ==
    /\ Idle
    /\ gt_items[j].visible
    /\ LET h == start_resize(gt_items[j].rect, pos)
       IN  IF h # "none"
           THEN /\ nEdits < MaxEdits
                /\ nEdits' = nEdits + 1
                /\ gt_items' = [gt_items EXCEPT ![j].resizing = h]
                /\ UNCHANGED <<gt_states, pred_items, final_items>>
           ELSE LET gts == [gt_items EXCEPT ![j].resizing = "none",
                                            ![j].kept = Flip(gt_items[j].kept)]
                IN  /\ gt_items' = gts
                    /\ gt_states' = [gt_states EXCEPT
                                        ![index][j].kept = gts[j].kept]
                    /\ final_items' = RefreshFinal(pred_items, gts)
                    /\ pred_items' = flag_predictions(pred_items, gts)
                    /\ UNCHANGED nEdits
    /\ Ran(start_resize(gt_items[j].rect, pos) = "none")
    /\ UNCHANGED <<files, pc, index, pred_states, label_files, class_names, images,
                   pred_checkbox, gt_checkbox, final_checkbox,
                   save_idx, save_open, save_buf, prior, nSaves, run, view>>

\* _update_from_rect has made prediction j the item it: the state takes its
\* line, the final overlay and the flags are redone
Released(it, release) == IF release THEN [it EXCEPT !.resizing = "none"] ELSE it

\* the flags left as they were after a change of the predictions
PredsStale(preds) ==
    /\ final_items' = RefreshFinal(preds, gt_items)
    /\ pred_items' = preds

PredsChanged(preds) ==
    /\ final_items' = RefreshFinal(preds, gt_items)
    /\ pred_items' = flag_predictions(preds, gt_items)

\* the item resized and its state left with the old line
PredResizedItemOnly(j, it, release) ==
    /\ pred_states' = pred_states
    /\ PredsChanged([pred_items EXCEPT ![j] = Released(it, release)])

PredResized(j, it, release) ==
    /\ pred_states' = [pred_states EXCEPT ![index][j].line = it.line]
    /\ PredsChanged([pred_items EXCEPT ![j] = Released(it, release)])

\* the flags left as they were after a change of the labels
GtsStale(gts) ==
    /\ gt_items' = gts
    /\ final_items' = RefreshFinal(pred_items, gts)
    /\ pred_items' = pred_items

GtsChanged(gts) ==
    /\ gt_items' = gts
    /\ final_items' = RefreshFinal(pred_items, gts)
    /\ pred_items' = flag_predictions(pred_items, gts)

GtResized(j, it, release) ==
    /\ gt_states' = [gt_states EXCEPT ![index][j].line = it.line]
    /\ GtsChanged([gt_items EXCEPT ![j] = Released(it, release)])

\* PredBox.mouseMoveEvent (release = FALSE) and mouseReleaseEvent while
\* _resizing is set; without it both leave the item as it is
PredDrag(j, pos, release) ==
    /\ Idle
    /\ pred_items[j].visible
    /\ pred_items[j].resizing # "none"
    /\ PredResized(j, resize(pred_items[j], pos), release)
    /\ Ran(TRUE)
    /\ UNCHANGED <<files, pc, index, gt_states, label_files, class_names, images,
                   gt_items, pred_checkbox, gt_checkbox, final_checkbox, save_idx,
                   save_open, save_buf, prior, nEdits, nSaves, run, view>>

\* GTBox.mouseMoveEvent and mouseReleaseEvent while _resizing is set
GtDrag(j, pos, release) ==
    /\ Idle
    /\ gt_items[j].visible
    /\ gt_items[j].resizing # "none"
    /\ GtResized(j, resize(gt_items[j], pos), release)
    /\ Ran(TRUE)
    /\ UNCHANGED <<files, pc, index, pred_states, label_files, class_names, images,
                   pred_checkbox, gt_checkbox, final_checkbox, save_idx,
                   save_open, save_buf, prior, nEdits, nSaves, run, view>>

\* next_image going round to the first image
next_image_wrap ==
    IF index < Len(images) THEN load_image(index + 1) ELSE load_image(1)

\* AnnotationWindow.next_image
next_image ==
    IF index < Len(images) THEN load_image(index + 1)
    ELSE UNCHANGED <<pc, index, pred_items, gt_items, final_items>>

\* AnnotationWindow.prev_image
prev_image ==
    IF index > 1 THEN load_image(index - 1)
    ELSE UNCHANGED <<pc, index, pred_items, gt_items, final_items>>

\* the navigation that shows the new image with the view as it started
navFrameViewReset ==
    /\ view' = ViewInit
    /\ UNCHANGED <<files, pred_states, gt_states, label_files, class_names,
                   images, pred_checkbox, gt_checkbox, final_checkbox, save_idx,
                   save_open, save_buf, prior, nEdits, nSaves, run>>

\* what the navigation does not touch: load_image makes no call on the view
navFrame ==
    UNCHANGED <<files, pred_states, gt_states, label_files, class_names, images,
                pred_checkbox, gt_checkbox, final_checkbox, save_idx, save_open,
                save_buf, prior, nEdits, nSaves, run, view>>

\* the Next and the Previous button
NextImage == Idle /\ next_image /\ Went("next") /\ navFrame
PrevImage == Idle /\ prev_image /\ Went("prev") /\ navFrame

\* AnnotationWindow.keyPressEvent
Keys == {"Key_Right", "Key_Left", "Key_Space"}
KeyPress(key) ==
    /\ Idle
    /\ CASE key = "Key_Right" -> next_image /\ Went("next")
         [] key = "Key_Left" -> prev_image /\ Went("prev")
         [] OTHER -> UNCHANGED <<pc, index, pred_items, gt_items, final_items>> /\ Other
    /\ navFrame

SetVisible(items, state) == Map(items, LAMBDA it : [it EXCEPT !.visible = state])

\* AnnotationWindow.toggle_predictions, on a click of "Show predictions"
TogglePredictions ==
    /\ Idle
    /\ pred_checkbox' = ~pred_checkbox
    /\ pred_items' = SetVisible(pred_items, ~pred_checkbox)
    /\ Other
    /\ UNCHANGED <<files, pc, index, pred_states, gt_states, label_files,
                   class_names, images, gt_items, final_items, gt_checkbox,
                   final_checkbox, save_idx, save_open, save_buf, prior,
                   nEdits, nSaves, run, view>>

\* AnnotationWindow.toggle_gt, on a click of "Show ground truth"
ToggleGt ==
    /\ Idle
    /\ gt_checkbox' = ~gt_checkbox
    /\ gt_items' = SetVisible(gt_items, ~gt_checkbox)
    /\ Other
    /\ UNCHANGED <<files, pc, index, pred_states, gt_states, label_files,
                   class_names, images, pred_items, final_items, pred_checkbox,
                   final_checkbox, save_idx, save_open, save_buf, prior,
                   nEdits, nSaves, run, view>>

\* AnnotationWindow.toggle_final, on a click of "Show final labels"
ToggleFinal ==
    /\ Idle
    /\ final_checkbox' = ~final_checkbox
    /\ final_items' = update_final_items(class_names, ~final_checkbox,
                                         pred_items, gt_items)
    /\ Other
    /\ UNCHANGED <<files, pc, index, pred_states, gt_states, label_files,
                   class_names, images, pred_items, gt_items, pred_checkbox,
                   gt_checkbox, save_idx, save_open, save_buf, prior,
                   nEdits, nSaves, run, view>>

\* "\n".join(lines): NL is the newline character, which no line holds
NL == [k |-> "nl", v |-> 0]
RECURSIVE JoinLines(_)
JoinLines(lines) ==
    IF lines = <<>> THEN <<>>
    ELSE IF Len(lines) = 1 THEN Head(lines)
    ELSE Head(lines) \o <<NL>> \o JoinLines(Tail(lines))

\* "No labels selected"
NoLabelsSelected == <<W(1), SP, W(2), SP, W(3)>>

\* the text without the sentinel
preview_join_only(lines) == JoinLines(lines)

\* AnnotationWindow.preview; the box is modal and is closed before the next
\* handler runs
preview_text(lines) == IF lines # <<>> THEN JoinLines(lines) ELSE NoLabelsSelected

Preview ==
    /\ Idle
    /\ message' = preview_text(collect_lines(gt_states[index], pred_states[index]))
    /\ lastOp' = [op |-> "preview", from |-> index]
    /\ flagged' = FALSE
    /\ UNCHANGED <<files, pc, index, pred_states, gt_states, label_files,
                   class_names, images, pred_items, gt_items, final_items,
                   pred_checkbox, gt_checkbox, final_checkbox, save_idx,
                   save_open, save_buf, prior, nEdits, nSaves, run, view>>

\* AnnotationWindow.save_all: one pass of its loop writes the file of image k
SaveLines(k) == collect_lines(gt_states[k], pred_states[k])

\* save_all from image k on, on the lists lfs, gss and pss
RECURSIVE WriteFrom(_, _, _, _, _)
WriteFrom(fs, lfs, gss, pss, k) ==
    IF k > Len(lfs) THEN fs
    ELSE WriteFrom([fs EXCEPT ![lfs[k]] = File(collect_lines(gss[k], pss[k]))],
                   lfs, gss, pss, k + 1)

saveFrame ==
    UNCHANGED <<index, pred_states, gt_states, label_files, class_names, images,
                pred_items, gt_items, final_items, pred_checkbox, gt_checkbox,
                final_checkbox, nEdits, run, view>>

\* the click on Save, save_all running to its end
SaveAll ==
    /\ Idle
    /\ nSaves' = nSaves + 1
    /\ prior' = files
    /\ files' = WriteFrom(files, label_files, gt_states, pred_states, 1)
    /\ Did("save_all")
    /\ UNCHANGED <<pc, save_idx, save_open, save_buf>>
    /\ saveFrame

\* save_all step by step, for the runs the end of the process cuts short.
\* No other handler runs before save_all returns.
SaveBegin ==
    /\ Idle
    /\ nSaves' = nSaves + 1
    /\ pc' = "saving"
    /\ save_idx' = 1
    /\ prior' = files
    /\ Did("save_all")
    /\ UNCHANGED <<files, save_open, save_buf>>
    /\ saveFrame

\* open(label_file, "w"): the file exists and is empty
SaveOpen ==
    /\ pc = "saving"
    /\ ~save_open
    /\ files' = [files EXCEPT ![label_files[save_idx]] = File(<<>>)]
    /\ save_open' = TRUE
    /\ UNCHANGED <<pc, save_idx, save_buf, prior, lastOp, message, nSaves, flagged>>
    /\ saveFrame

\* f.write(line + "\n"), into the buffer of the open file
SaveWrite ==
    /\ pc = "saving"
    /\ save_open
    /\ Len(save_buf) < Len(SaveLines(save_idx))
    /\ save_buf' = Append(save_buf, SaveLines(save_idx)[Len(save_buf) + 1])
    /\ UNCHANGED <<files, pc, save_idx, save_open, prior, lastOp, message, nSaves, flagged>>
    /\ saveFrame

\* the end of the with block: the buffer reaches the file; then the next
\* image, or the end of save_all
SaveClose ==
    /\ pc = "saving"
    /\ save_open
    /\ Len(save_buf) = Len(SaveLines(save_idx))
    /\ files' = [files EXCEPT ![label_files[save_idx]] = File(save_buf)]
    /\ save_open' = FALSE
    /\ save_buf' = <<>>
    /\ IF save_idx < Len(label_files)
       THEN save_idx' = save_idx + 1 /\ pc' = pc
       ELSE save_idx' = 0 /\ pc' = "idle"
    /\ UNCHANGED <<prior, lastOp, message, nSaves, flagged>>
    /\ saveFrame

\* the process ends in the middle of save_all: killed (the buffer is lost)
\* or unwound by an exception (the with block flushes what was written)
Interrupt(flushed) ==
    /\ pc = "saving"
    /\ pc' = "dead"
    /\ files' = IF save_open /\ flushed
                THEN [files EXCEPT ![label_files[save_idx]] = File(save_buf)]
                ELSE files
    /\ UNCHANGED <<save_idx, save_open, save_buf, prior, lastOp, message, nSaves, flagged>>
    /\ saveFrame

\* the Exit button: QMainWindow.close
Close ==
    /\ pc = "idle"
    /\ pc' = "closed"
    /\ Did("close")
    /\ UNCHANGED <<files, index, pred_states, gt_states, label_files, class_names,
                   images, pred_items, gt_items, final_items, pred_checkbox,
                   gt_checkbox, final_checkbox, save_idx, save_open, save_buf,
                   prior, nEdits, nSaves, run, view>>

\* everything but the view and the history of handlers
viewFrame ==
    UNCHANGED <<files, pc, index, pred_states, gt_states, label_files, class_names,
                images, pred_items, gt_items, final_items, pred_checkbox,
                gt_checkbox, final_checkbox, save_idx, save_open, save_buf,
                prior, nEdits, nSaves, run>>

\* QScrollBar.setValue: the value kept within the range of the bar
Clamp(n) == Max(0, Min(ScrollMax, n))

\* event.pos() of the mouse events on the viewport
ViewPoints == (0..1) \X (0..1)

\* ZoomableGraphicsView.wheelEvent: scale(1.25) or scale(0.8); the anchor
\* under the mouse moves the scroll bars to keep the point under the cursor
Wheel(up, h, v) ==
    /\ Idle
    /\ IF up THEN view.zoom < MaxZoom ELSE view.zoom > 0 - MaxZoom
    /\ view' = [view EXCEPT !.zoom = IF up THEN @ + 1 ELSE @ - 1,
                            !.h = h, !.v = v]
    /\ Other
    /\ viewFrame

\* ZoomableGraphicsView.mousePressEvent, right button
PanPress(pos) ==
    /\ Idle
    /\ view' = [view EXCEPT !.pan = pos]
    /\ Other
    /\ viewFrame

\* ZoomableGraphicsView.mouseMoveEvent while _last_pan_point is set
PanMove(pos) ==
    /\ Idle
    /\ view.pan # <<>>
    /\ view' = [view EXCEPT !.pan = pos,
                            !.h = Clamp(@ - (pos[1] - view.pan[1])),
                            !.v = Clamp(@ - (pos[2] - view.pan[2]))]
    /\ Other
    /\ viewFrame

\* ZoomableGraphicsView.mouseReleaseEvent, right button
PanRelease ==
    /\ Idle
    /\ view.pan # <<>>
    /\ view' = [view EXCEPT !.pan = <<>>]
    /\ Other
    /\ viewFrame

\* ------------------------------------------------------ specifications
Mouse ==
    \/ \E j \in DOMAIN pred_items, pos \in Positions : PredPress(j, pos)
    \/ \E j \in DOMAIN gt_items, pos \in Positions : GtPress(j, pos)
    \/ \E j \in DOMAIN pred_items, pos \in Positions, release \in BOOLEAN :
           PredDrag(j, pos, release)
    \/ \E j \in DOMAIN gt_items, pos \in Positions, release \in BOOLEAN :
           GtDrag(j, pos, release)

Navigate ==
    \/ NextImage
    \/ PrevImage
    \/ \E key \in Keys : KeyPress(key)

View ==
    \/ TogglePredictions
    \/ ToggleGt
    \/ ToggleFinal
    \/ Preview

\* the flags off their defaults: accepted predictions and unkept labels
RECURSIVE FlipsFrom(_)
FlipsFrom(k) ==
    IF k > Len(images) THEN 0
    ELSE Len(SelectSeq(pred_states[k], LAMBDA s : s.accepted))
         + Len(SelectSeq(gt_states[k], LAMBDA s : ~s.kept)) + FlipsFrom(k + 1)
Flips == FlipsFrom(1)

\* every handler of the window, on sessions of few flips and resizes
Next ==
    /\ \/ Mouse
       \/ Navigate
       \/ View
       \/ SaveAll
       \/ Close
    /\ Flips' <= Shallow
    /\ nEdits' <= Shallow

Spec == InitOn(SmallScenarios) /\ [][Next /\ qt' = qt]_vars

\* the boxes and the navigation
EditNext == Mouse \/ Navigate
EditSpec == InitOn(ReviewScenarios) /\ [][EditNext /\ qt' = qt]_vars

\* the flags, the navigation and save_all step by step
SaveNext ==
    \/ \E j \in DOMAIN pred_items, pos \in Positions : PredPress(j, pos)
    \/ \E j \in DOMAIN gt_items, pos \in Positions : GtPress(j, pos)
    \/ NextImage
    \/ PrevImage
    \/ SaveBegin
    \/ SaveOpen
    \/ SaveWrite
    \/ SaveClose
    \/ \E flushed \in BOOLEAN : Interrupt(flushed)
SaveSpec == InitOn(ReviewScenarios) /\ [][SaveNext /\ nEdits' = 0 /\ qt' = qt]_vars

\* the view and the navigation
ViewNext ==
    \/ \E up \in BOOLEAN, h \in 0..ScrollMax, v \in 0..ScrollMax : Wheel(up, h, v)
    \/ \E pos \in ViewPoints : PanPress(pos)
    \/ \E pos \in ViewPoints : PanMove(pos)
    \/ PanRelease
    \/ Navigate
ViewSpec == InitOn(SmallScenarios) /\ [][ViewNext /\ qt' = qt]_vars

\* a review of cached predictions: the flags, the navigation and the final
\* overlay, which shows the class names
ReplayNext ==
    \/ \E j \in DOMAIN pred_items, pos \in Positions : PredPress(j, pos)
    \/ \E j \in DOMAIN gt_items, pos \in Positions : GtPress(j, pos)
    \/ NextImage
    \/ PrevImage
    \/ ToggleFinal
ReplaySpec == InitOn(ReplayScenarios) /\ [][ReplayNext /\ nEdits' = 0 /\ qt' = qt]_vars

\* ---------------------------------------------------------- the batch
\* main, run after run on the same directories with the same model: the
\* seeding file by file, the loop image by image, then the review, of which
\* the batch sees what its save_all leaves in the corrected directory
BatchScenarios ==
    { \* the same boxes in another order and number; no labels; nothing at all
      [fs |-> [EmptyFs EXCEPT ![Path("labels", "a")] = File(<<B0, A0, A0>>)],
       image_paths |-> <<Img("a", "jpg"), Img("b", "jpg"), Img("c", "jpg")>>,
       predict |-> (Img("a", "jpg") :> <<Pred(A0, Conf(9)), Pred(B0, Conf(8))>>
                    @@ Img("b", "jpg") :> <<Pred(B0, Conf(8))>>
                    @@ Img("c", "jpg") :> <<>>)],
      \* another class; a label the model does not predict
      [fs |-> LabelsFs(<<A1>>, <<B0, C0>>),
       image_paths |-> <<Img("a", "jpg"), Img("b", "jpg")>>,
       predict |-> (Img("a", "jpg") :> <<Pred(A0, Conf(9))>>
                    @@ Img("b", "jpg") :> <<Pred(B0, Conf(8))>>)],
      \* two images of one stem
      [fs |-> LabelsFs(<<A0>>, <<>>),
       image_paths |-> <<Img("a", "jpg"), Img("a", "png")>>,
       predict |-> (Img("a", "jpg") :> <<Pred(A1, Conf(9))>>
                    @@ Img("a", "png") :> <<Pred(B0, Conf(8))>>)],
      \* a side file left by hand, its confidence no number
      [fs |-> [LabelsFs(<<A0>>, <<B0>>) EXCEPT
                  ![Path("pred", "b")] = File(<<B0 \o <<SP, Bad>> >>)],
       image_paths |-> <<Img("a", "jpg"), Img("b", "jpg")>>,
       predict |-> (Img("a", "jpg") :> <<Pred(A0, Conf(9))>>
                    @@ Img("b", "jpg") :> <<Pred(C0, Conf(8))>>)],
      \* an image that cannot be decoded, before one that can
      \* and a side file left by hand: a line without confidence, a blank
      \* line, a line of seven words behind a space and with two spaces in it;
      \* the labels are one line twice, a blank line between them
      [fs |-> [LabelsFs(<<A0>>, <<B0, <<SP>>, B0 \o <<SP>> >>) EXCEPT
                  ![Path("pred", "b")] =
                      File(<<B0, <<SP>>,
                             <<SP>> \o C0 \o <<SP, SP, D(Tenth(7)), SP, I(1)>> >>)],
       image_paths |-> <<Undecodable("a", "jpg"), Img("b", "jpg")>>,
       predict |-> (Undecodable("a", "jpg") :> <<Pred(A1, Conf(9))>>
                    @@ Img("b", "jpg") :> <<Pred(C0, Conf(8))>>)] }

\* glob(labels/*.txt)
LabelStems(fs) == {stem \in Stems : fs[Path("labels", stem)].ex}

StartRun(n, replay, image_paths, predict, fs, live) ==
    [phase |-> "seed", n |-> n, replay |-> replay, image_paths |-> image_paths,
     predict |-> predict, todo |-> LabelStems(fs), i |-> 1, q |-> <<>>,
     log |-> <<>>, live |-> live]

\* no window is open
NoWindow ==
    /\ qt = NoQt
    /\ pc = "closed"
    /\ flagged = FALSE
    /\ index = 0
    /\ images = <<>>
    /\ pred_states = <<>>
    /\ gt_states = <<>>
    /\ label_files = <<>>
    /\ class_names = <<>>
    /\ pred_items = <<>>
    /\ gt_items = <<>>
    /\ final_items = <<>>
    /\ pred_checkbox = TRUE
    /\ gt_checkbox = TRUE
    /\ final_checkbox = FALSE
    /\ save_idx = 0
    /\ save_open = FALSE
    /\ save_buf = <<>>
    /\ message = <<>>
    /\ lastOp = [op |-> "other", from |-> 0]
    /\ nEdits = 0
    /\ nSaves = 0
    /\ view = ViewInit

BatchInit ==
    \E sc \in BatchScenarios, replay \in BOOLEAN :
        /\ files = sc.fs
        /\ prior = sc.fs
        /\ run = StartRun(1, replay, sc.image_paths, sc.predict, sc.fs, <<>>)
        /\ NoWindow

\* main: one pass of the seeding loop, glob's order being any order
BatchSeed(stem) ==
    /\ run.phase = "seed"
    /\ stem \in run.todo
    /\ files' = SeedOne(files, stem)
    /\ run' = [run EXCEPT !.todo = @ \ {stem}]
    /\ UNCHANGED winVars

\* main: the loop is reached
BatchLoop ==
    /\ run.phase = "seed"
    /\ run.todo = {}
    /\ run' = [run EXCEPT !.phase = "loop"]
    /\ UNCHANGED <<files, winVars>>

\* history: what the loop read for an image, and whether it queued it
LogEntry(img, pred_lines, label_lines, queued) ==
    [image |-> img, preds |-> Map(pred_lines, LAMBDA p : p.line),
     labels |-> label_lines, queued |-> queued]

Looked(fs, img, replay, predicted) ==
    IF ~img.ok THEN LogEntry(img, <<>>, <<>>, FALSE)
    ELSE LogEntry(img,
                  IF replay THEN ReplayLines(fs, Path("pred", img.stem))
                  ELSE predicted,
                  load_labels(fs, Path("corrected", img.stem)), FALSE)

\* the loop has made st of its lists; e is what it read for the image
Processed(st, e) ==
    /\ files' = st.fs
    /\ run' = [run EXCEPT
                  !.i = @ + 1,
                  !.q = st.q,
                  !.phase = IF st.crashed THEN "crashed" ELSE @,
                  !.log = IF st.crashed THEN @
                          ELSE Append(@, [e EXCEPT !.queued = Len(st.q) > Len(run.q)])]

\* main: one pass of the loop over image_paths
BatchImage ==
    /\ run.phase = "loop"
    /\ run.i <= Len(run.image_paths)
    /\ Processed(ProcessImage([fs |-> files, q |-> run.q, crashed |-> FALSE],
                              run.image_paths[run.i], run.replay,
                              run.predict[run.image_paths[run.i]]),
                 Looked(files, run.image_paths[run.i], run.replay,
                        run.predict[run.image_paths[run.i]]))
    /\ UNCHANGED winVars

\* main: "if images: run_interface(...)"
BatchEnd ==
    /\ run.phase = "loop"
    /\ run.i > Len(run.image_paths)
    /\ run' = [run EXCEPT !.phase = IF run.q # <<>> THEN "review" ELSE "done"]
    /\ UNCHANGED <<files, winVars>>

\* the review ends with a save_all on boxes all kept or all not, all
\* accepted or all not
SetKept(q, keep) ==
    Map(q, LAMBDA e : Map(e.labels, LAMBDA g : [g EXCEPT !.kept = keep]))
SetAccepted(q, accept) ==
    Map(q, LAMBDA e : Map(e.preds, LAMBDA x : [x EXCEPT !.accepted = accept]))

BatchSave(keep, accept) ==
    /\ run.phase = "review"
    /\ files' = WriteFrom(files, Map(run.q, LAMBDA e : e.label_file),
                          SetKept(run.q, keep), SetAccepted(run.q, accept), 1)
    /\ run' = [run EXCEPT !.phase = "done"]
    /\ UNCHANGED winVars

\* the review ends without a save
BatchExit ==
    /\ run.phase = "review"
    /\ run' = [run EXCEPT !.phase = "done"]
    /\ UNCHANGED <<files, winVars>>

\* main is started again
BatchAgain(replay) ==
    /\ run.phase = "done"
    /\ run.n < MaxRuns
    /\ run' = StartRun(run.n + 1, replay, run.image_paths, run.predict, files,
                       IF run.replay THEN run.live ELSE run.log)
    /\ UNCHANGED <<files, winVars>>

BatchNext ==
    \/ \E stem \in Stems : BatchSeed(stem)
    \/ BatchLoop
    \/ BatchImage
    \/ BatchEnd
    \/ \E keep \in BOOLEAN, accept \in BOOLEAN : BatchSave(keep, accept)
    \/ BatchExit
    \/ \E replay \in BOOLEAN : BatchAgain(replay)

BatchSpec == BatchInit /\ [][BatchNext /\ qt' = qt]_vars

\* ---------------------------------------------------------- the codec
\* yolo_line_to_rect and rect_to_yolo_line on their own: a valid line of
\* five fields and an image size are drawn, the line is made a rectangle
\* and the rectangle a line again with the class id of the first line
CodecFracs == {n \in 0..Den : n % (Den \div 10) = 0 \/ n <= 1 \/ n >= Den - 1}
CodecWords == {D(n) : n \in CodecFracs} \cup {I(1)}
CodecSizes == {<<1, 1>>, <<3, 7>>, <<ImgSize, ImgSize>>}

CodecInit ==
    /\ files = EmptyFs
    /\ prior = EmptyFs
    /\ NoWindow
    /\ \E cls \in 0..1, xc \in CodecWords, yc \in CodecWords, w \in CodecWords,
          h \in CodecWords, size \in CodecSizes :
           run = [phase |-> "line", line |-> <<I(cls), SP, xc, SP, yc, SP, w, SP, h>>,
                  img_w |-> size[1], img_h |-> size[2]]

CodecToRect ==
    /\ run.phase = "line"
    /\ run' = [phase |-> "rect", line |-> run.line, img_w |-> run.img_w,
               img_h |-> run.img_h,
               rect |-> yolo_line_to_rect(run.line, run.img_w, run.img_h)]
    /\ UNCHANGED <<files, winVars>>

CodecToLine ==
    /\ run.phase = "rect"
    /\ run' = [phase |-> "back", line |-> run.line, img_w |-> run.img_w,
               img_h |-> run.img_h, rect |-> run.rect,
               out |-> rect_to_yolo_line(run.rect, Int_(Split(run.line)[1]),
                                         run.img_w, run.img_h)]
    /\ UNCHANGED <<files, winVars>>

CodecNext == CodecToRect \/ CodecToLine
CodecSpec == CodecInit /\ [][CodecNext /\ qt' = qt]_vars

\* ------------------------------------------------------------ the IoU
\* window.iou on its own, on two rectangles of whole pixels; a resize that
\* carries a handle past the opposite corner leaves a rectangle of negative
\* width or height
IouCorners == 0..2
IouExtents == (0 - 2)..2
IouRects ==
    {Rect(x * PX, y * PX, w * PX, h * PX) :
        x \in IouCorners, y \in IouCorners, w \in IouExtents, h \in IouExtents}

IouInit ==
    /\ files = EmptyFs
    /\ prior = EmptyFs
    /\ NoWindow
    /\ \E a \in IouRects, b \in IouRects : run = [phase |-> "rects", a |-> a, b |-> b]

IouApply ==
    /\ run.phase = "rects"
    /\ run' = [phase |-> "iou", a |-> run.a, b |-> run.b,
               inter |-> Intersected(run.a, run.b), value |-> iou(run.a, run.b)]
    /\ UNCHANGED <<files, winVars>>

IouSpec == IouInit /\ [][IouApply /\ qt' = qt]_vars

\* ------------------------------------------------- the launched window
\* qt_interface.AnnotationWindow with the PredBox and GTBox of qt_interface,
\* which main imports, on the queue of the window above and driven by the
\* events that window takes.  w is the window: its index, states, items,
\* final overlay and "Show final labels" box, and the files it has written;
\* keyed is history: an arrow key has been pressed
QtRect(item) == [kind |-> "rect", rect |-> item.rect, text |-> ""]

\* qt_interface.AnnotationWindow.update_final_items: rectangles only
qt_update_final_items(checked, preds, gts) ==
    IF ~checked THEN <<>>
    ELSE Map(SelectSeq(gts, LAMBDA g : g.kept), QtRect)
         \o Map(SelectSeq(preds, LAMBDA q : q.accepted), QtRect)

QtRefreshFinal(w, preds, gts) ==
    IF w.final_checkbox THEN qt_update_final_items(TRUE, preds, gts)
    ELSE w.final_items

\* qt_interface.AnnotationWindow.load_image
qt_load_image(w, idx) ==
    IF ~LoadOk(w.pred_states[idx], w.gt_states[idx]) THEN [w EXCEPT !.pc = "dead"]
    ELSE LET gts == Map(w.gt_states[idx], LAMBDA s : GtItem(s, TRUE))
             preds == flag_predictions(Map(w.pred_states[idx],
                                           LAMBDA s : PredItem(s, TRUE)), gts)
         IN  [w EXCEPT !.index = idx, !.pred_items = preds, !.gt_items = gts,
                       !.final_items = qt_update_final_items(w.final_checkbox, preds, gts)]

\* qt_interface.AnnotationWindow.__init__ on the lists of main
QtInit(q, fs) ==
    qt_load_image([pc |-> "idle", index |-> 1,
                   pred_states |-> Map(q, LAMBDA e : e.preds),
                   gt_states |-> Map(q, LAMBDA e : e.labels),
                   pred_items |-> <<>>, gt_items |-> <<>>, final_items |-> <<>>,
                   final_checkbox |-> FALSE, files |-> fs, keyed |-> FALSE], 1)

\* the press on label j with no flag_predictions after it
QtGtPressUnflagged(w, j, pos) ==
    IF w.pc # "idle" \/ j \notin DOMAIN w.gt_items THEN w
    ELSE LET h == start_resize(w.gt_items[j].rect, pos)
         IN  IF h # "none" THEN [w EXCEPT !.gt_items[j].resizing = h]
             ELSE LET gts == [w.gt_items EXCEPT ![j].resizing = "none",
                                                ![j].kept = ~w.gt_items[j].kept]
                  IN  [w EXCEPT !.gt_items = gts,
                                !.gt_states[w.index][j].kept = gts[j].kept,
                                !.final_items = QtRefreshFinal(w, w.pred_items, gts)]

\* qt_interface.PredBox.mousePressEvent on prediction j
QtPredPress(w, j, pos) ==
    IF w.pc # "idle" \/ j \notin DOMAIN w.pred_items THEN w
    ELSE LET h == start_resize(w.pred_items[j].rect, pos)
         IN  IF h # "none" THEN [w EXCEPT !.pred_items[j].resizing = h]
             ELSE LET preds == [w.pred_items EXCEPT
                                   ![j].resizing = "none",
                                   ![j].accepted = ~w.pred_items[j].accepted]
                  IN  [w EXCEPT !.pred_items = preds,
                                !.pred_states[w.index][j].accepted = preds[j].accepted,
                                !.final_items = QtRefreshFinal(w, preds, w.gt_items)]

\* qt_interface.GTBox.mousePressEvent on label j
QtGtPress(w, j, pos) ==
    IF w.pc # "idle" \/ j \notin DOMAIN w.gt_items THEN w
    ELSE LET h == start_resize(w.gt_items[j].rect, pos)
         IN  IF h # "none" THEN [w EXCEPT !.gt_items[j].resizing = h]
             ELSE LET gts == [w.gt_items EXCEPT ![j].resizing = "none",
                                                ![j].kept = ~w.gt_items[j].kept]
                  IN  [w EXCEPT !.gt_items = gts,
                                !.gt_states[w.index][j].kept = gts[j].kept,
                                !.final_items = QtRefreshFinal(w, w.pred_items, gts),
                                !.pred_items = flag_predictions(w.pred_items, gts)]

\* qt_interface.PredBox.mouseMoveEvent and mouseReleaseEvent
QtPredDrag(w, j, pos, release) ==
    IF w.pc # "idle" \/ j \notin DOMAIN w.pred_items THEN w
    ELSE IF w.pred_items[j].resizing = "none" THEN w
    ELSE LET it == resize(w.pred_items[j], pos)
             preds == [w.pred_items EXCEPT ![j] = Released(it, release)]
         IN  [w EXCEPT !.pred_states[w.index][j].line = it.line,
                       !.final_items = QtRefreshFinal(w, preds, w.gt_items),
                       !.pred_items = flag_predictions(preds, w.gt_items)]

\* qt_interface.GTBox.mouseMoveEvent and mouseReleaseEvent
QtGtDrag(w, j, pos, release) ==
    IF w.pc # "idle" \/ j \notin DOMAIN w.gt_items THEN w
    ELSE IF w.gt_items[j].resizing = "none" THEN w
    ELSE LET it == resize(w.gt_items[j], pos)
             gts == [w.gt_items EXCEPT ![j] = Released(it, release)]
         IN  [w EXCEPT !.gt_states[w.index][j].line = it.line,
                       !.gt_items = gts,
                       !.final_items = QtRefreshFinal(w, w.pred_items, gts),
                       !.pred_items = flag_predictions(w.pred_items, gts)]

\* qt_interface.AnnotationWindow.next_image and prev_image
qt_next_image(w) ==
    IF w.pc = "idle" /\ w.index < Len(w.pred_states) THEN qt_load_image(w, w.index + 1)
    ELSE w
qt_prev_image(w) ==
    IF w.pc = "idle" /\ w.index > 1 THEN qt_load_image(w, w.index - 1) ELSE w

\* qt_interface.AnnotationWindow has no keyPressEvent: QMainWindow's takes
\* the key and the window stays as it is
QtKeyPress(w, key) == [w EXCEPT !.keyed = @ \/ key \in {"Key_Right", "Key_Left"}]

\* qt_interface.AnnotationWindow.save_all, with its collect_lines
qt_save_all(w) ==
    IF w.pc # "idle" THEN w
    ELSE [w EXCEPT !.files = WriteFrom(@, label_files, w.gt_states, w.pred_states, 1)]

\* qt_interface.AnnotationWindow.toggle_final
QtToggleFinal(w) ==
    IF w.pc # "idle" THEN w
    ELSE [w EXCEPT !.final_checkbox = ~w.final_checkbox,
                   !.final_items = qt_update_final_items(~w.final_checkbox,
                                                         w.pred_items, w.gt_items)]

\* an image of two labels on its prediction, the first of another class,
\* and an image whose label and prediction lie apart
PairScenarios ==
    { [fs |-> LabelsFs(<<A1, A0>>, <<B0>>),
       image_paths |-> <<Img("a", "jpg"), Img("b", "jpg")>>,
       replay |-> FALSE,
       predict |-> (Img("a", "jpg") :> <<Pred(A0, Conf(9))>>
                    @@ Img("b", "jpg") :> <<Pred(C0, Conf(7))>>),
       names |-> <<"cat">>] }

\* the two windows are opened on the queue main has built
PairInit ==
    \E sc \in PairScenarios :
        LET m == Main(sc.fs, sc.image_paths, sc.replay, sc.predict)
        IN  /\ Review(m, ClassNamesOf(sc))
            /\ qt = QtInit(m.q, m.fs)

\* one event, taken by both windows
PairEvent ==
    \/ \E j \in DOMAIN pred_items, pos \in Positions :
           PredPress(j, pos) /\ qt' = QtPredPress(qt, j, pos)
    \/ \E j \in DOMAIN gt_items, pos \in Positions :
           GtPress(j, pos) /\ qt' = QtGtPress(qt, j, pos)
    \/ \E j \in DOMAIN pred_items, pos \in Positions, release \in BOOLEAN :
           PredDrag(j, pos, release) /\ qt' = QtPredDrag(qt, j, pos, release)
    \/ \E j \in DOMAIN gt_items, pos \in Positions, release \in BOOLEAN :
           GtDrag(j, pos, release) /\ qt' = QtGtDrag(qt, j, pos, release)
    \/ NextImage /\ qt' = qt_next_image(qt)
    \/ PrevImage /\ qt' = qt_prev_image(qt)
    \/ \E key \in Keys : KeyPress(key) /\ qt' = QtKeyPress(qt, key)
    \/ ToggleFinal /\ qt' = QtToggleFinal(qt)
    \/ SaveAll /\ qt' = qt_save_all(qt)

\* the sessions that end with their first arrow key
PairNext == ~qt.keyed /\ PairEvent

PairSpec == PairInit /\ [][PairNext]_vars

\* -------------------------------------------------------------- claims
\* a line that is among the predictions' box-lines or among the label lines
\* of a log entry, and not among both
Differ(e) ==
    \E l \in Range(e.preds) \cup Range(e.labels) :
        ~(l \in Range(e.preds) /\ l \in Range(e.labels))

\* C1: the batch loop queues an image exactly when some line is among its
\* predictions' box-lines or among its label lines and not among both; the
\* order and the number of repetitions of the lines do not count, and an
\* image without predictions and without labels is not queued. The queue
\* holds the queued images in the order of the loop.
C1_QueuedIffSetsDiffer ==
    /\ \A k \in DOMAIN run.log : run.log[k].queued <=> Differ(run.log[k])
    /\ Map(run.q, LAMBDA e : e.image)
           = Map(SelectSeq(run.log, LAMBDA e : e.queued), LAMBDA e : e.image)

\* the loop has skipped an image whose predictions and labels are the same
\* lines in another order and number, queued an image, and skipped an image
\* that has neither predictions nor labels
C1_Witness ==
    \E i, j, k \in DOMAIN run.log :
        /\ ~run.log[i].queued
        /\ run.log[i].preds # run.log[i].labels
        /\ Len(run.log[i].preds) # Len(run.log[i].labels)
        /\ run.log[j].queued
        /\ ~run.log[k].queued
        /\ run.log[k].preds = <<>>
        /\ run.log[k].labels = <<>>


\* the labels kept among the first j of gts; the predictions accepted among
\* the first j of preds
KeptTo(gts, j) == Cardinality({i \in 1..j : gts[i].kept})
AcceptedTo(preds, j) == Cardinality({i \in 1..j : preds[i].accepted})

\* out is the kept labels' lines in their order, then the accepted
\* predictions' lines in theirs, and nothing else
FinalLines(out, gts, preds) ==
    /\ Len(out) = KeptTo(gts, Len(gts)) + AcceptedTo(preds, Len(preds))
    /\ \A j \in DOMAIN gts : gts[j].kept => out[KeptTo(gts, j)] = gts[j].line
    /\ \A j \in DOMAIN preds :
           preds[j].accepted =>
               out[KeptTo(gts, Len(gts)) + AcceptedTo(preds, j)] = preds[j].line

\* C2: whatever toggles and resizes have been made, collect_lines of every
\* queued image is the lines of its kept labels in their stored order, then
\* the lines of its accepted predictions in their stored order, and nothing
\* else: no unkept label and no unaccepted prediction
C2_CollectOrder ==
    \A k \in DOMAIN images :
        FinalLines(collect_lines(gt_states[k], pred_states[k]),
                   gt_states[k], pred_states[k])

\* an image with an unkept label, a kept label behind it and an accepted
\* prediction whose line a resize has rewritten
C2_Witness ==
    \E k \in DOMAIN images :
        /\ Len(gt_states[k]) >= 2
        /\ ~gt_states[k][1].kept
        /\ gt_states[k][2].kept
        /\ \E j \in DOMAIN pred_states[k] :
               /\ pred_states[k][j].accepted
               /\ pred_states[k][j].line \notin {A0, A1, B0, C0}


\* prediction p and label g overlap: their IoU is above 0
Overlaps(p, g) == FracGt(iou(p.rect, g.rect), Zero)

\* label k is the best match of prediction p: it is kept and overlaps p, no
\* kept label has a greater IoU with p, and every kept label before it has
\* a smaller one
IsBestMatch(p, gts, k) ==
    /\ gts[k].kept
    /\ Overlaps(p, gts[k])
    /\ \A m \in DOMAIN gts :
           gts[m].kept =>
               /\ ~FracGt(iou(p.rect, gts[m].rect), iou(p.rect, gts[k].rect))
               /\ m < k => FracGt(iou(p.rect, gts[k].rect), iou(p.rect, gts[m].rect))

\* C3: a displayed prediction is amber exactly when no kept label overlaps
\* it (its best IoU over the kept labels is 0) or the class of its best
\* match among the kept labels is not its own class: a prediction of class 0
\* on a kept label of class 1 is amber, and so is every prediction when no
\* label is kept
C3_FlagIffDisagree ==
    \A j \in DOMAIN pred_items :
        pred_items[j].pen = "amber" <=>
            \/ \A k \in DOMAIN gt_items :
                   gt_items[k].kept => ~Overlaps(pred_items[j], gt_items[k])
            \/ \E k \in DOMAIN gt_items :
                   /\ IsBestMatch(pred_items[j], gt_items, k)
                   /\ ClassWord(gt_items[k].line) # ClassWord(pred_items[j].line)

\* a prediction of class 0 lies exactly on its best match, a kept label of
\* class 1, after a click has taken the label of its own class out
C3_Witness ==
    \E j \in DOMAIN pred_items, k, m \in DOMAIN gt_items :
        /\ IsBestMatch(pred_items[j], gt_items, k)
        /\ pred_items[j].rect = gt_items[k].rect
        /\ ClassWord(pred_items[j].line) = I(0)
        /\ ClassWord(gt_items[k].line) = I(1)
        /\ ~gt_items[m].kept
        /\ pred_items[j].pen = "amber"

\* C4: the labels not kept take no part in the matching: the displayed
\* predictions are flagged as they are with those labels taken away, and a
\* prediction that no kept label of its class overlaps is amber
C4_UnkeptIgnored ==
    /\ \A j \in DOMAIN pred_items :
           pred_items[j].pen
               = flag_predictions(pred_items,
                                  SelectSeq(gt_items, LAMBDA g : g.kept))[j].pen
    /\ \A j \in DOMAIN pred_items :
           (\A k \in DOMAIN gt_items :
                gt_items[k].kept /\ Overlaps(pred_items[j], gt_items[k])
                    => ClassWord(gt_items[k].line) # ClassWord(pred_items[j].line))
               => pred_items[j].pen = "amber"

\* the only label that overlaps a prediction is of its class and has been
\* taken out by a click: the prediction is amber
C4_Witness ==
    \E j \in DOMAIN pred_items, k \in DOMAIN gt_items :
        /\ ~gt_items[k].kept
        /\ Overlaps(pred_items[j], gt_items[k])
        /\ ClassWord(gt_items[k].line) = ClassWord(pred_items[j].line)
        /\ \A m \in DOMAIN gt_items : Overlaps(pred_items[j], gt_items[m]) => m = k
        /\ pred_items[j].pen = "amber"


\* the file of image k holds the final lines of image k, one line per record
HoldsFinal(fs, k) ==
    fs[label_files[k]] = File(collect_lines(gt_states[k], pred_states[k]))

\* save_all has run to its end and no handler has run since
Saved == pc = "idle" /\ lastOp.op = "save_all"

\* C5: once save_all has completed, the target file of every queued image,
\* displayed or not, visited or not, holds collect_lines of that image
C5_SaveWritesAll == Saved => \A k \in DOMAIN images : HoldsFinal(files, k)


\* a step of the seeding loop
SeedStep == run.phase = "seed" /\ run'.phase = "seed" /\ run'.todo # run.todo

\* C6: a pass of the seeding loop changes a file only by creating a
\* corrected file that did not exist as the copy of the label file of its
\* name; a corrected file that exists is left as it is, also in a later run
\* and after save_all has rewritten it, and the seeding of a later run
\* changes nothing at all
C6_SeedOnce ==
    [][SeedStep =>
          /\ \A p \in Paths :
                 files'[p] # files[p] =>
                     /\ p[1] = "corrected"
                     /\ ~files[p].ex
                     /\ files'[p] = files[Path("labels", p[2])]
          /\ run.n > 1 => files' = files]_vars

\* the seeding of a second run is over, and a corrected file the first run
\* seeded has since been rewritten by save_all
C6_Witness ==
    /\ run.n = 2
    /\ run.phase = "loop"
    /\ \E stem \in Stems :
           /\ files[Path("labels", stem)].ex
           /\ files[Path("corrected", stem)].ex
           /\ files[Path("corrected", stem)] # files[Path("labels", stem)]


\* the step is a click on, or a drag of, prediction j (label j) of the
\* displayed image
PredEvent(j) ==
    \E pos \in Positions :
        PredPress(j, pos) \/ \E release \in BOOLEAN : PredDrag(j, pos, release)
GtEvent(j) ==
    \E pos \in Positions :
        GtPress(j, pos) \/ \E release \in BOOLEAN : GtDrag(j, pos, release)

\* the displayed items show the stored flags and lines of the image
ShowsStored ==
    /\ \A j \in DOMAIN pred_items :
           /\ pred_items[j].line = pred_states[index][j].line
           /\ pred_items[j].accepted = pred_states[index][j].accepted
    /\ \A j \in DOMAIN gt_items :
           /\ gt_items[j].line = gt_states[index][j].line
           /\ gt_items[j].kept = gt_states[index][j].kept

\* C7: the stored line and flag of a box change only in a step that is a
\* click on or a drag of that box, the box being of the displayed image; a
\* step of navigation, save_all, preview or a visibility checkbox changes no
\* box state of any image; and the displayed items show the stored flags
\* and lines, so that an image shows on return what it had when left
C7_Frame ==
    /\ [][\A k \in DOMAIN images :
              /\ \A j \in DOMAIN pred_states[k] :
                     pred_states'[k][j] # pred_states[k][j]
                         => k = index /\ PredEvent(j)
              /\ \A j \in DOMAIN gt_states[k] :
                     gt_states'[k][j] # gt_states[k][j]
                         => k = index /\ GtEvent(j)]_vars
    /\ [](pc = "idle" => ShowsStored)

\* the first image is shown again, having been left for the second; its
\* prediction is accepted and resized, as it was when the image was left
C7_Witness ==
    /\ lastOp = [op |-> "prev", from |-> 2]
    /\ index = 1
    /\ pred_states[1][1].accepted
    /\ pred_states[1][1].line # A0
    /\ pred_items[1].accepted
    /\ pred_items[1].line = pred_states[1][1].line

\* C8: the index stays among the images of the queue; a request for the
\* next image made on the last one, and a request for the previous image
\* made on the first one, by button or by key, change neither the index nor
\* the displayed items (no wrap-around, no reload) and raise nothing
C8_IndexInRange ==
    /\ [](index \in 1..Len(images))
    /\ [][(\/ lastOp' = [op |-> "next", from |-> Len(images)]
           \/ lastOp' = [op |-> "prev", from |-> 1])
              => UNCHANGED <<index, pc, pred_items, gt_items, final_items,
                             pred_states, gt_states, files>>]_vars

\* the next image has been asked for on the last one: the image is still
\* shown, and its prediction still in the resize begun before the request
C8_Witness ==
    /\ lastOp = [op |-> "next", from |-> Len(images)]
    /\ index = Len(images)
    /\ pc = "idle"
    /\ pred_items[1].resizing # "none"


\* C9: in a replay run that follows a live run, every image gets the set
\* of box-lines the live run got for it, and with the same label lines the
\* same decision to queue or to skip
C9_ReplayRoundTrip ==
    run.replay /\ run.live # <<>> =>
        \A k \in DOMAIN run.log :
            /\ run.live[k].image = run.log[k].image
            /\ Range(run.log[k].preds) = Range(run.live[k].preds)
            /\ Range(run.log[k].labels) = Range(run.live[k].labels)
                   => run.log[k].queued = run.live[k].queued

\* save_all has been cut short between two files: save_idx - 1 files are
\* written and closed, the next one is not yet opened
CutBetweenFiles ==
    /\ pc = "dead"
    /\ lastOp.op = "save_all"
    /\ save_idx >= 1
    /\ ~save_open

\* C10: when save_all is interrupted after it has fully written the files of
\* the first images of the queue, these files hold their new content and
\* the file of every later image holds what it held before save_all began
C10_PartialSave ==
    CutBetweenFiles =>
        \A k \in DOMAIN label_files :
            IF k < save_idx THEN HoldsFinal(files, k)
            ELSE files[label_files[k]] = prior[label_files[k]]


\* the class id of a stored line
ClassId(line) == Int_(ClassWord(line))

\* the stored line of a box whose rectangle a step has changed is the line
\* of the new rectangle with the class id the box had
LineOfNewRect(item, old, new) ==
    new.line = rect_to_yolo_line(item.rect, ClassId(old.line), img_w, img_h)

\* C11: a resize of a prediction or label box replaces the stored line of
\* the box with the line computed from its new rectangle, with the class id
\* it had; no step changes the class word of any stored line of any image
C11_EditKeepsClass ==
    [][/\ \A k \in DOMAIN pred_states : \A j \in DOMAIN pred_states[k] :
              /\ ClassWord(pred_states'[k][j].line) = ClassWord(pred_states[k][j].line)
              /\ pred_states'[k][j].line # pred_states[k][j].line =>
                     /\ k = index /\ index' = index
                     /\ pred_items'[j].line = pred_states'[k][j].line
                     /\ LineOfNewRect(pred_items'[j], pred_states[k][j],
                                      pred_states'[k][j])
       /\ \A k \in DOMAIN gt_states : \A j \in DOMAIN gt_states[k] :
              /\ ClassWord(gt_states'[k][j].line) = ClassWord(gt_states[k][j].line)
              /\ gt_states'[k][j].line # gt_states[k][j].line =>
                     /\ k = index /\ index' = index
                     /\ gt_items'[j].line = gt_states'[k][j].line
                     /\ LineOfNewRect(gt_items'[j], gt_states[k][j],
                                      gt_states'[k][j])]_vars

\* a label of class 1 has been resized: its line is no more the input line
C11_Witness ==
    \E j \in DOMAIN gt_items :
        /\ ClassWord(gt_states[index][j].line) = I(1)
        /\ gt_states[index][j].line # A1
        /\ gt_items[j].line = gt_states[index][j].line


\* the "Final Labels" box is open: preview has run and no handler since
Previewed == lastOp.op = "preview"

\* C12: the box preview opens shows the lines of collect_lines of the
\* displayed image joined by newlines, or "No labels selected" when there
\* are none; preview does not fail, and the text is not that of another
\* image whose final lines differ
C12_PreviewText ==
    Previewed =>
        /\ pc = "idle"
        /\ index = lastOp.from
        /\ IF collect_lines(gt_states[index], pred_states[index]) = <<>>
           THEN message = NoLabelsSelected
           ELSE message = JoinLines(collect_lines(gt_states[index],
                                                  pred_states[index]))
        /\ \A k \in DOMAIN images :
               collect_lines(gt_states[k], pred_states[k])
                       # collect_lines(gt_states[index], pred_states[index])
                   => message # preview_text(collect_lines(gt_states[k],
                                                           pred_states[k]))

\* preview on an image left without final lines, another image having some
C12_Witness ==
    /\ Previewed
    /\ collect_lines(gt_states[index], pred_states[index]) = <<>>
    /\ \E k \in DOMAIN images : collect_lines(gt_states[k], pred_states[k]) # <<>>

\* preview on an image of two final lines
C12_WitnessJoined ==
    /\ Previewed
    /\ Len(collect_lines(gt_states[index], pred_states[index])) = 2


\* C13: in a run with --predictions the class names the review window holds
\* are the class names of the model
C13_ReplayClassNames == class_names = ModelNames

\* the final overlay of such a run names a box by the number of its class
C13_NumberShown ==
    \E i \in DOMAIN final_items : final_items[i].text = "0"


\* a press on prediction j / label j away from its handles: the click that
\* toggles
PredToggle(j) ==
    \E pos \in Positions :
        start_resize(pred_items[j].rect, pos) = "none" /\ PredPress(j, pos)
GtToggle(j) ==
    \E pos \in Positions :
        start_resize(gt_items[j].rect, pos) = "none" /\ GtPress(j, pos)

ClassText(names, line) ==
    IF ClassId(line) \in 0..(Len(names) - 1) THEN names[ClassId(line) + 1]
    ELSE ToString(ClassId(line))

\* entries 2n - 1 and 2n of the final overlay are the rectangle of item and
\* the text of its class
OverlayAt(n, item) ==
    /\ final_items[2 * n - 1].kind = "rect"
    /\ final_items[2 * n - 1].rect = item.rect
    /\ final_items[2 * n].kind = "text"
    /\ final_items[2 * n].text = ClassText(class_names, item.line)

\* C15: while the window takes events, with "Show final labels" checked the
\* final overlay holds one rectangle and one class text for every kept label
\* and every accepted prediction of the displayed image, the labels first,
\* and nothing else; the text is the class name when class_names has one
\* for the id and the id as a number when not; unchecked, the overlay is
\* empty
C15_FinalOverlay ==
    pc = "idle" =>
        IF ~final_checkbox THEN final_items = <<>>
        ELSE /\ Len(final_items)
                    = 2 * (KeptTo(gt_states[index], Len(gt_states[index]))
                           + AcceptedTo(pred_states[index], Len(pred_states[index])))
             /\ \A j \in DOMAIN gt_items :
                    gt_states[index][j].kept =>
                        OverlayAt(KeptTo(gt_states[index], j), gt_items[j])
             /\ \A j \in DOMAIN pred_items :
                    pred_states[index][j].accepted =>
                        OverlayAt(KeptTo(gt_states[index], Len(gt_states[index]))
                                  + AcceptedTo(pred_states[index], j), pred_items[j])

\* the overlay shows a resized label by the number of its class, which has
\* no name, and an accepted prediction by the name of its class
C15_Witness ==
    /\ pc = "idle"
    /\ final_checkbox
    /\ \E i, j \in DOMAIN final_items :
           /\ final_items[i].text = "1"
           /\ final_items[i].rect # yolo_line_to_rect(A1, img_w, img_h)
           /\ final_items[j].text = "cat"


\* a step of next_image or prev_image that shows another image
Navigated == lastOp'.op \in {"next", "prev"} /\ index' # index

\* C16: a step that navigates to another image leaves the zoom of the view
\* and the values of its two scroll bars as they were
C16_NavigationKeepsView ==
    [][Navigated => /\ view'.zoom = view.zoom
                    /\ view'.h = view.h
                    /\ view'.v = view.v]_vars

\* the second image reached by next_image with the view zoomed and scrolled
\* both ways
C16_Witness ==
    /\ lastOp = [op |-> "next", from |-> 1]
    /\ index = 2
    /\ view.zoom # 0
    /\ view.h # 0
    /\ view.v # 0


\* what the loop has read for the images it has queued, in its order
QueuedLog == SelectSeq(run.log, LAMBDA e : e.queued)

\* entry k of the queue is made of what the loop read for one image: its
\* predictions, its labels, and the corrected file of its stem
EntryOfImage(k) ==
    /\ run.q[k].image = QueuedLog[k].image
    /\ Map(run.q[k].preds, LAMBDA s : s.line) = QueuedLog[k].preds
    /\ Map(run.q[k].labels, LAMBDA s : s.line) = QueuedLog[k].labels
    /\ run.q[k].label_file = Path("corrected", run.q[k].image.stem)
    /\ ~run.replay =>
           Map(run.q[k].preds, LAMBDA s : Pred(s.line, s.conf))
               = run.predict[run.q[k].image]

\* the save_all that ends a review writes, for the flags keep and accept,
\* the lines of every entry to the file of that entry (the last entry of a
\* file is the one whose lines stay) and no other file
WritesOwnFiles(keep, accept) ==
    /\ \A k \in DOMAIN run.q :
           (\A m \in DOMAIN run.q : m > k => run.q[m].label_file # run.q[k].label_file)
               => files'[run.q[k].label_file]
                      = File(collect_lines(SetKept(run.q, keep)[k],
                                           SetAccepted(run.q, accept)[k]))
    /\ \A path \in Paths :
           (\A k \in DOMAIN run.q : run.q[k].label_file # path)
               => files'[path] = files[path]

C18_RoundTrip ==
    run.phase = "back" =>
        /\ Len(Split(run.out)) = 5
        /\ IntOk(Split(run.out)[1])
        /\ Int_(Split(run.out)[1]) = Int_(Split(run.line)[1])
        /\ \A i \in 2..5 :
               /\ FloatOk(Split(run.out)[i])
               /\ Float(Split(run.out)[i]) = Float(Split(run.line)[i])

\* the round trip of a line of class 1 whose width is the word "1" and whose
\* box reaches over the left edge of an image of odd size: the line that
\* comes back has the fractions and not the words of the first
C18_Witness ==
    /\ run.phase = "back"
    /\ run.img_w = 3
    /\ Split(run.line)[1] = I(1)
    /\ Split(run.line)[4] = I(1)
    /\ run.rect.x < 0
    /\ run.out # run.line


\* the span of a rectangle on each axis, whatever the sign of its extents
LeftOf(r) == Min(r.x, r.x + r.w)
RightOf(r) == Max(r.x, r.x + r.w)
TopOf(r) == Min(r.y, r.y + r.h)
BottomOf(r) == Max(r.y, r.y + r.h)

\* the two rectangles share no area
Apart(a, b) ==
    \/ RightOf(a) <= LeftOf(b) \/ RightOf(b) <= LeftOf(a)
    \/ BottomOf(a) <= TopOf(b) \/ BottomOf(b) <= TopOf(a)

\* neither extent is zero
NonDegenerate(r) == r.w # 0 /\ r.h # 0

\* what window.iou divides by
UnionArea(a, b, inter) == a.w * a.h + b.w * b.h - inter.w * inter.h

\* C19: for all rectangles A and B, iou(A, B) is within 0 and 1, iou(A, A)
\* is 1 when A is not degenerate, and iou is 0 for rectangles that share no
\* area and when the union area is 0
C19_IouRange ==
    run.phase = "iou" =>
        /\ run.value.d > 0
        /\ 0 <= run.value.n
        /\ run.value.n <= run.value.d
        /\ run.a = run.b /\ NonDegenerate(run.a) => run.value.n = run.value.d
        /\ Apart(run.a, run.b) => run.value.n = 0
        /\ UnionArea(run.a, run.b, run.inter) = 0 => run.value.n = 0

\* both rectangles have their extents positive or zero
Upright == run.a.w >= 0 /\ run.a.h >= 0 /\ run.b.w >= 0 /\ run.b.h >= 0


\* what a step changes of the stored boxes: a line (a geometry edit), a
\* kept flag, an accepted flag
Edited ==
    \/ \E k \in DOMAIN pred_states : \E j \in DOMAIN pred_states[k] :
           pred_states'[k][j].line # pred_states[k][j].line
    \/ \E k \in DOMAIN gt_states : \E j \in DOMAIN gt_states[k] :
           gt_states'[k][j].line # gt_states[k][j].line
KeepToggled ==
    \E k \in DOMAIN gt_states : \E j \in DOMAIN gt_states[k] :
        gt_states'[k][j].kept # gt_states[k][j].kept
AcceptToggled ==
    \E k \in DOMAIN pred_states : \E j \in DOMAIN pred_states[k] :
        pred_states'[k][j].accepted # pred_states[k][j].accepted

FlagsFresh == pred_items = flag_predictions(pred_items, gt_items)

NewContents(p) ==
    {File(SaveLines(k)) : k \in {i \in DOMAIN label_files : label_files[i] = p}}

\* save_all is running, or the process has ended in the middle of it
InSaveAll == pc \in {"saving", "dead"} /\ lastOp.op = "save_all"

\* C21: at no point during save_all, an interruption in the middle of one
\* file's write included, does a target file hold anything other than its
\* complete prior content or its complete new content
C21_AtomicWrite ==
    InSaveAll =>
        \A p \in Range(label_files) :
            files[p] = prior[p] \/ files[p] \in NewContents(p)

\* the file of an image is open and empty while its prior and its new content
\* are the same non-empty list of lines
C21_Truncated ==
    /\ InSaveAll
    /\ save_open
    /\ files[label_files[save_idx]] = File(<<>>)
    /\ prior[label_files[save_idx]] = File(SaveLines(save_idx))
    /\ SaveLines(save_idx) # <<>>


\* a line of exactly 5 numeric tokens
WellFormed(line) ==
    /\ Len(Split(line)) = 5
    /\ \A i \in 1..5 : FloatOk(Split(line)[i])

\* every box record of the review queue wraps a well-formed line
QueueWellFormed ==
    \A k \in DOMAIN images :
        /\ \A s \in Range(gt_states[k]) : WellFormed(s.line)
        /\ \A s \in Range(pred_states[k]) : WellFormed(s.line)

\* C22: a label or prediction line that does not consist of exactly 5
\* numeric tokens never becomes a box record of the review queue and never
\* appears in a file written by save_all
C22_MalformedSkipped ==
    /\ QueueWellFormed
    /\ Saved => \A k \in DOMAIN label_files :
                    \A l \in Range(files[label_files[k]].lines) : WellFormed(l)

\* save_all has written a line of four tokens back to the file of its image
C22_SavedMalformed ==
    /\ Saved
    /\ \E k \in DOMAIN label_files :
           /\ gt_states[k] = <<GtState(Short0)>>
           /\ Short0 \in Range(files[label_files[k]].lines)


\* the loop over image_paths has run to its end
LoopDone == run.phase \in {"review", "done"}

\* C23: a failure confined to one image (an undecodable image file, an
\* unparsable confidence token in its prediction side file) never aborts
\* the batch: the loop runs to its end over every image, and an image that
\* cannot be decoded is not queued
C23_BatchNeverAborts ==
    /\ run.phase # "crashed"
    /\ LoopDone =>
           /\ Len(run.log) = Len(run.image_paths)
           /\ \A k \in DOMAIN run.log : ~run.log[k].image.ok => ~run.log[k].queued

\* the loop has passed an undecodable image and queued the image after it
C23_SkippedUndecodable ==
    /\ LoopDone
    /\ ~run.log[1].image.ok
    /\ run.log[2].queued
    /\ Len(run.q) = 1

\* main has died on the side file of the second image after queueing the first
C23_Aborted ==
    /\ run.phase = "crashed"
    /\ run.replay
    /\ Len(run.q) = 1
    /\ run.i = 3


\* the kept labels whose IoU with prediction p is maximal and above 0
TopMatches(p, gts) ==
    {k \in DOMAIN gts :
        /\ gts[k].kept
        /\ Overlaps(p, gts[k])
        /\ \A m \in DOMAIN gts :
               gts[m].kept => ~FracGt(iou(p.rect, gts[m].rect), iou(p.rect, gts[k].rect))}

\* the first of a non-empty set of positions
First(S) == CHOOSE k \in S : \A m \in S : k <= m

\* C24: when several kept labels have the same maximal IoU with a
\* prediction, the one that comes first in the labels' stored order is the
\* best match: the prediction is amber exactly when that label's class is
\* not its own
C24_TieFirst ==
    \A j \in DOMAIN pred_items :
        LET T == TopMatches(pred_items[j], gt_items)
        IN  T # {} =>
                /\ BestMatch(pred_items[j], gt_items).gt = First(T)
                /\ pred_items[j].pen = "amber" <=>
                       ClassWord(gt_items[First(T)].line) # ClassWord(pred_items[j].line)

\* two kept labels lie exactly on a prediction of class 0, the first of
\* class 1 and the second of class 0: flag_predictions has made the
\* prediction amber
C24_Witness ==
    /\ flagged
    /\ Len(gt_items) = 2
    /\ TopMatches(pred_items[1], gt_items) = {1, 2}
    /\ ClassWord(gt_items[1].line) = I(1)
    /\ ClassWord(gt_items[2].line) = I(0)
    /\ ClassWord(pred_items[1].line) = I(0)
    /\ pred_items[1].pen = "amber"


\* the words of a line: its characters that are no spaces, in their order
Tokens(l) == SelectSeq(l, LAMBDA c : c.k # "sp")

\* the first n words of parts with one space between two of them
SingleSpaced(parts, n) ==
    [i \in 1..(2 * n - 1) |-> IF i % 2 = 1 THEN parts[(i + 1) \div 2] ELSE SP]

\* the prediction the claim gives a non-blank line of a side file
ParsedPred(l) ==
    LET parts == Tokens(l)
    IN  [line |-> SingleSpaced(parts, Min(5, Len(parts))),
         conf |-> IF Len(parts) >= 6 THEN Float(parts[6]) * ConfScale ELSE 0]

\* the predictions the claim gives a side file
ParsedFile(f) ==
    IF ~f.ex THEN <<>>
    ELSE Map(SelectSeq(f.lines, LAMBDA l : Tokens(l) # <<>>), ParsedPred)

\* the loop passes a decodable image in a run with --predictions
ReplayStep ==
    /\ run.phase = "loop"
    /\ run.replay
    /\ run.i <= Len(run.image_paths)
    /\ run.image_paths[run.i].ok
    /\ run'.i = run.i + 1

\* the loop has read for the image the predictions of the side file f, and
\* has queued them with their confidences if it has queued the image
ReadAs(f) ==
    /\ run'.phase = "loop"
    /\ Len(run'.log) = Len(run.log) + 1
    /\ run'.log[Len(run'.log)].preds = Map(ParsedFile(f), LAMBDA p : p.line)
    /\ run'.log[Len(run'.log)].queued =>
           run'.q[Len(run'.q)].preds = Map(ParsedFile(f), PredState)

\* C25: in replay mode an absent side file yields an empty prediction list;
\* otherwise each non-blank line yields one prediction, in file order, whose
\* box line is the first 5 words joined by single spaces and whose confidence
\* is the 6th word when the line has 6 or more words and 0 otherwise
C25_ReplayParse ==
    [][ReplayStep => ReadAs(files[Path("pred", run.image_paths[run.i].stem)])]_vars

\* the same of the side files whose 6th words are numbers
C25_NumericParse ==
    [][ReplayStep /\ run'.phase # "crashed" =>
           ReadAs(files[Path("pred", run.image_paths[run.i].stem)])]_vars

\* a side file of three lines, one blank, has given two predictions: the
\* first without confidence, the second of the 6th of seven words
C25_ReadByHand ==
    /\ run.replay
    /\ run.q # <<>>
    /\ Len(files[Path("pred", "b")].lines) = 3
    /\ run.q[Len(run.q)].preds = <<PredState(Pred(B0, 0)), PredState(Pred(C0, Conf(7)))>>


\* the label lines the loop loaded for entry k of the queue
LoadedLabels(k) == QueuedLog[k].labels

\* every prediction of the queue not accepted, every label kept, and one
\* label record per loaded line
Defaults ==
    \A k \in DOMAIN run.q :
        /\ \A s \in Range(run.q[k].preds) : ~s.accepted
        /\ \A s \in Range(run.q[k].labels) : s.kept
        /\ Len(run.q[k].labels) = Len(LoadedLabels(k))
        /\ \A i \in DOMAIN run.q[k].labels : run.q[k].labels[i].line = LoadedLabels(k)[i]

\* the review ends with a save_all on the states as main has built them
UntouchedSave ==
    /\ run.phase = "review"
    /\ run'.phase = "done"
    /\ files' = WriteFrom(files, Map(run.q, LAMBDA e : e.label_file),
                          Map(run.q, LAMBDA e : e.labels),
                          Map(run.q, LAMBDA e : e.preds), 1)

\* C26: every prediction starts not accepted and every label starts kept,
\* with one state record per loaded line, duplicates included; so a save_all
\* issued before any toggle or geometry edit writes to the file of each
\* queued image exactly the label lines loaded for it, in their order,
\* and no prediction line
C26_DefaultsSaveLabels ==
    /\ []Defaults
    /\ [][UntouchedSave =>
              \A k \in DOMAIN run.q :
                  files'[run.q[k].label_file] = File(LoadedLabels(k))]_vars

\* an image of one label line repeated, with predictions, has been queued
\* and saved untouched: its file holds the line twice, without the blank
\* line and the trailing space of the labels file, and no prediction line
C26_Witness ==
    /\ run.phase = "done"
    /\ Len(run.q) = 1
    /\ run.q[1].preds # <<>>
    /\ LoadedLabels(1) = <<B0, B0>>
    /\ files[Path("labels", "b")].lines = <<B0, <<SP>>, B0 \o <<SP>> >>
    /\ files[run.q[1].label_file] = File(<<B0, B0>>)


\* the lines of the boxes that go to the final labels, read from the items
\* as flag_predictions and update_final_items read them
ItemLines ==
    Map(SelectSeq(gt_items, LAMBDA g : g.kept), LAMBDA g : g.line)
    \o Map(SelectSeq(pred_items, LAMBDA p : p.accepted), LAMBDA p : p.line)

\* C27: after any sequence of mouse presses, moves, releases and
\* navigations there is one item per state of the displayed image, and the
\* item's own accepted or kept flag and line equal those of the state it
\* wraps; so the lines the items give are those collect_lines and save_all
\* take from the states
C27_ItemsMirrorStates ==
    pc = "idle" =>
        /\ Len(pred_items) = Len(pred_states[index])
        /\ Len(gt_items) = Len(gt_states[index])
        /\ \A j \in DOMAIN pred_items :
               /\ pred_items[j].accepted = pred_states[index][j].accepted
               /\ pred_items[j].line = pred_states[index][j].line
        /\ \A j \in DOMAIN gt_items :
               /\ gt_items[j].kept = gt_states[index][j].kept
               /\ gt_items[j].line = gt_states[index][j].line
        /\ ItemLines = collect_lines(gt_states[index], pred_states[index])

\* on the first image a label has been taken out and the prediction
\* accepted and resized, the image left and shown again: item and state
\* agree on the new flags and on the new line
C27_Witness ==
    /\ pc = "idle"
    /\ index = 1
    /\ lastOp = [op |-> "prev", from |-> 2]
    /\ ~gt_items[1].kept
    /\ ~gt_states[1][1].kept
    /\ pred_items[1].accepted
    /\ pred_states[1][1].accepted
    /\ pred_items[1].line # A0
    /\ pred_states[1][1].line = pred_items[1].line
    /\ ItemLines # <<>>


\* the colours of the displayed predictions
Pens(preds) == Map(preds, LAMBDA p : p.pen)

\* the labels with the kept flag of label k flipped, as a click leaves them
Clicked(gts, k) == [gts EXCEPT ![k].kept = ~gts[k].kept]

\* the colours after two clicks on label k: taken out and kept again, or
\* kept and taken out again
ReKept(k) ==
    Pens(flag_predictions(flag_predictions(pred_items, Clicked(gt_items, k)),
                          Clicked(Clicked(gt_items, k), k)))

\* the corner of the item that its resize moves
Corner(item) ==
    IF item.resizing = "topleft" THEN [x |-> item.rect.x, y |-> item.rect.y]
    ELSE [x |-> item.rect.x + item.rect.w, y |-> item.rect.y + item.rect.h]

\* the colours after prediction j, in a resize, is dragged to pos and back
PredUndone(j, pos) ==
    LET there == flag_predictions([pred_items EXCEPT ![j] = resize(pred_items[j], pos)],
                                  gt_items)
        back == flag_predictions([there EXCEPT ![j] = resize(there[j], Corner(pred_items[j]))],
                                 gt_items)
    IN  Pens(back)

\* the colours after label k, in a resize, is dragged to pos and back
GtUndone(k, pos) ==
    LET there == [gt_items EXCEPT ![k] = resize(gt_items[k], pos)]
        flags == flag_predictions(pred_items, there)
        back == [there EXCEPT ![k] = resize(there[k], Corner(gt_items[k]))]
    IN  Pens(flag_predictions(flags, back))

\* C28: between user events the colour of every displayed prediction is
\* the one a fresh flag_predictions pass computes from the current
\* rectangles and kept flags, after any sequence of toggles, resizes and
\* navigations; two clicks on a label, and a drag of a handle followed by
\* the drag back, restore the colours
C28_NoStaleFlag ==
    pc = "idle" =>
        /\ \A j \in DOMAIN pred_items :
               pred_items[j].pen
                   = IF Disagrees(pred_items[j], gt_items) THEN "amber" ELSE "red"
        /\ \A k \in DOMAIN gt_items : ReKept(k) = Pens(pred_items)
        /\ \A j \in DOMAIN pred_items, pos \in Positions :
               pred_items[j].resizing # "none" => PredUndone(j, pos) = Pens(pred_items)
        /\ \A k \in DOMAIN gt_items, pos \in Positions :
               gt_items[k].resizing # "none" => GtUndone(k, pos) = Pens(pred_items)

\* the label of class 1 on the prediction has been taken out and the
\* prediction, now red on the label of its class, is in a resize: a drag of
\* its corner onto the opposite corner would make it amber, and so would a
\* click that keeps the first label again
C28_Witness ==
    /\ pc = "idle"
    /\ ~gt_items[1].kept
    /\ pred_items[1].pen = "red"
    /\ pred_items[1].resizing = "bottomright"
    /\ flag_predictions(pred_items, Clicked(gt_items, 1))[1].pen = "amber"
    /\ flag_predictions([pred_items EXCEPT ![1] = resize(pred_items[1], Pt(30, 30))],
                        gt_items)[1].pen = "amber"


\* pos is within HANDLE_SIZE pixels, on both axes, of the point (x, y)
Within(pos, x, y) ==
    /\ pos.x - x <= HANDLE_SIZE * PX
    /\ x - pos.x <= HANDLE_SIZE * PX
    /\ pos.y - y <= HANDLE_SIZE * PX
    /\ y - pos.y <= HANDLE_SIZE * PX

\* pos is on a handle of the rectangle r: at its top-left or at its
\* bottom-right corner
OnHandle(r, pos) ==
    \/ Within(pos, r.x, r.y)
    \/ Within(pos, r.x + r.w, r.y + r.h)

\* the states of the boxes other than box j of the displayed image
OthersOf(states, j) ==
    [k \in DOMAIN states |->
        [i \in DOMAIN states[k] |->
            IF k = index /\ i = j THEN <<>> ELSE states[k][i]]]

\* C29: a mouse press on a box does exactly one of two things: on a handle
\* (within HANDLE_SIZE pixels, on both axes, of the top-left or of the
\* bottom-right corner) it starts a resize and leaves the flag and the line
\* of the box as they are; elsewhere it flips the flag and starts no resize.
\* A drag of a box in a resize changes the line of that box only and no flag
C29_PressResizesOrToggles ==
    [][/\ \A j \in DOMAIN pred_items, pos \in Positions :
              PredPress(j, pos) =>
                  IF OnHandle(pred_items[j].rect, pos)
                  THEN /\ pred_items'[j].resizing # "none"
                       /\ pred_items'[j].accepted = pred_items[j].accepted
                       /\ pred_states' = pred_states
                  ELSE /\ pred_items'[j].resizing = "none"
                       /\ pred_items'[j].accepted = ~pred_items[j].accepted
                       /\ pred_states'[index][j]
                              = [pred_states[index][j] EXCEPT !.accepted = ~@]
       /\ \A j \in DOMAIN gt_items, pos \in Positions :
              GtPress(j, pos) =>
                  IF OnHandle(gt_items[j].rect, pos)
                  THEN /\ gt_items'[j].resizing # "none"
                       /\ gt_items'[j].kept = gt_items[j].kept
                       /\ gt_states' = gt_states
                  ELSE /\ gt_items'[j].resizing = "none"
                       /\ gt_items'[j].kept = ~gt_items[j].kept
                       /\ gt_states'[index][j]
                              = [gt_states[index][j] EXCEPT !.kept = ~@]
       /\ \A j \in DOMAIN pred_items, pos \in Positions, release \in BOOLEAN :
              PredDrag(j, pos, release) =>
                  /\ pred_items'[j].accepted = pred_items[j].accepted
                  /\ pred_states'[index][j]
                         = [pred_states[index][j] EXCEPT !.line = pred_items'[j].line]
                  /\ OthersOf(pred_states', j) = OthersOf(pred_states, j)
                  /\ gt_states' = gt_states
       /\ \A j \in DOMAIN gt_items, pos \in Positions, release \in BOOLEAN :
              GtDrag(j, pos, release) =>
                  /\ gt_items'[j].kept = gt_items[j].kept
                  /\ gt_states'[index][j]
                         = [gt_states[index][j] EXCEPT !.line = gt_items'[j].line]
                  /\ OthersOf(gt_states', j) = OthersOf(gt_states, j)
                  /\ pred_states' = pred_states]_vars

\* on the second image a press exactly HANDLE_SIZE pixels from the top-left
\* corner of the first prediction has started its resize and left it not
\* accepted, after a press in the middle of the label has taken the label
\* out and started no resize
C29_Witness ==
    /\ pc = "idle"
    /\ index = 2
    /\ pred_items[1].line = B0
    /\ pred_items[1].resizing = "topleft"
    /\ ~pred_items[1].accepted
    /\ ~pred_states[2][1].accepted
    /\ ~gt_items[1].kept
    /\ gt_items[1].resizing = "none"
    /\ nEdits = 1


\* the flag and the line of a box item
BoxOf(item, kind) ==
    [line |-> item.line,
     flag |-> IF kind = "pred" THEN item.accepted ELSE item.kept]

\* the two windows agree on the session: the current index, the flags and
\* lines of the boxes (states and displayed items), the colours of the
\* displayed predictions and the written files
SameSession ==
    /\ qt.pc = pc
    /\ qt.index = index
    /\ qt.pred_states = pred_states
    /\ qt.gt_states = gt_states
    /\ Map(qt.pred_items, LAMBDA p : BoxOf(p, "pred"))
           = Map(pred_items, LAMBDA p : BoxOf(p, "pred"))
    /\ Map(qt.gt_items, LAMBDA g : BoxOf(g, "gt")) = Map(gt_items, LAMBDA g : BoxOf(g, "gt"))
    /\ Pens(qt.pred_items) = Pens(pred_items)
    /\ qt.files = files

\* C30 as stated: the window main launches (qt_interface) and the window of
\* window.py, driven by the same events from the same queue, have the same
\* index, box flags and lines, prediction flags and written files
C30_WindowsEquivalent == SameSession

\* C30: driven by the same sequence of toggling clicks, resizes, clicks on
\* Next and Previous, clicks on "Show final labels" and saves from the
\* same queue, the two windows have the same index, box flags and lines,
\* prediction flags and written files; an arrow key moves only the window
\* of window.py, and the final overlay of qt_interface holds the rectangles
\* of that of window.py without the class texts
C30_EquivalentWithoutKeys ==
    ~qt.keyed =>
        /\ SameSession
        /\ qt.final_items = SelectSeq(final_items, LAMBDA f : f.kind = "rect")

\* after a label taken out, a prediction accepted and resized, the final
\* labels shown and a click on Next, both windows have saved the same files
C30_Witness ==
    /\ ~qt.keyed
    /\ Saved
    /\ index = 2
    /\ qt.index = 2
    /\ final_checkbox
    /\ ~gt_states[1][1].kept
    /\ pred_states[1][1].accepted
    /\ pred_states[1][1].line # A0
    /\ files # prior
    /\ qt.files = files
    /\ files[label_files[1]] = File(<<A0, pred_states[1][1].line>>)

\* the Right key has moved the window of window.py to the second image
\* and left that of qt_interface on the first
C30_KeyMovesOne ==
    /\ qt.keyed
    /\ lastOp = [op |-> "next", from |-> 1]
    /\ index = 2
    /\ qt.index = 1

=============================================================================
